---- MODULE Spec2Model ----
(***************************************************************************)
(* Model of the Dota2 tracker bot (src/main.py): the SQLite store (users   *)
(* and matches tables), the chat commands of msg_handle that write it, and *)
(* the reconciliation loop poll_worker, one step per suspension point.     *)
(***************************************************************************)
EXTENDS Integers, Sequences, FiniteSets, TLC

\* ------------------------------------------------------------------ bounds
\* Environment budgets: how many environment events occur in a run (a change
\* of an account's most recent upstream event, a chat command, a store or
\* send fault), per specification.
MaxEvents == 3
MaxEventsRebind == 2
MaxEventsTwo == 3

\* ------------------------------------------------------------- constants
\* Python None / SQL NULL for the optional integer columns and values.
NULL == -1

ASSUMED_MMR_DELTA == 30
STREAK_NOTIFY_WIN == 5
STREAK_NOTIFY_LOSE == 5
\* calc_streak_for_user reads at most this many rows (LIMIT 50)
STREAK_ROWS == 50
\* lobby_type of the ranked queue (poll_worker: m.get("lobby_type")==7)
RANKED_LOBBY == 7
\* player_slot side boundary (is_player_win: player_slot < 128)
SLOT_SIDE == 128

\* Chat users (telegram_id) and external accounts (steam32) of the model.
TG == {1, 2}
Steam == {10, 20}
\* Match ids the upstream serves.
MatchIds == {555, 556, 557}
\* rank_tier values a verified profile may carry (NULL: none, 11: Herald 1,
\* 64: Ancient 4) and the value a "mmr N" command may carry.
RankTiers == {NULL, 11, 64}
MmrInputs == {4100}
\* net worth / gold per minute of the tracked player in a match detail
DetailPlayer == [net_worth |-> 15000, gold_per_min |-> 500]

\* The upstream's summary of a match as /players/<id>/matches returns it.
\* 555: ranked win (radiant, radiant won); 556: ranked loss (dire, radiant
\* won); 557: unranked win (dire, dire won).
UpstreamMatch(mid) ==
    CASE mid = 555 -> [match_id |-> 555, start_time |-> 1, lobby_type |-> 7,
                       player_slot |-> 0, radiant_win |-> TRUE]
      [] mid = 556 -> [match_id |-> 556, start_time |-> 2, lobby_type |-> 7,
                       player_slot |-> 128, radiant_win |-> TRUE]
      [] OTHER     -> [match_id |-> mid, start_time |-> 3, lobby_type |-> 0,
                       player_slot |-> 128, radiant_win |-> FALSE]

VARIABLES
    users,      \* users table: telegram_id -> row, or NoRow
    matches,    \* matches table: sequence of rows in insertion order
    feed,       \* upstream: steam32 -> most recent match id (any mode), or NULL
    rfeed,      \* upstream: steam32 -> most recent ranked match id, or NULL
    pc,         \* poll_worker's position
    pending,    \* poll_worker: the accounts of this cycle not yet finished
    cur,        \* poll_worker: locals of the account in progress
    cards,      \* delivered "new match" cards: <<tg, match_id>> -> ratings carried
    alerts,     \* delivered streak alerts: tg -> [win, lose] counts
    budget,     \* environment events still to come
    outcome,    \* history: tg -> what this cycle did with the account
    basis,      \* history: tg -> rating base, ranked matches applied since,
                \*   and whether it was set during the user's detail fetch
    od_cache,   \* od_get: _open_dota_cache, key -> entry
    od_now,     \* od_get: time.time(), in seconds
    od_last,    \* od_get: the last call and what it returned
    result,     \* the value last returned by a store query run on its own
    clock,      \* daily_worker: wall clock
    dpc,        \* daily_worker's position
    reports,    \* daily_worker: the daily summaries sent
    played,     \* daily_worker: start times of the account's upstream matches
    failures    \* daily_worker: the "user send failed" exceptions logged

pollvars == <<users, matches, feed, rfeed, pc, pending, cur, cards, alerts,
              budget, outcome, basis>>
odvars == <<od_cache, od_now, od_last>>
dailyvars == <<clock, dpc, reports, played, failures>>
vars == <<pollvars, odvars, result, dailyvars>>

\* Parts of the program a specification leaves out stay as constructed.
OdIdle == od_cache = <<>> /\ od_now = 0 /\ od_last = <<>>
QueryIdle == result = [query |-> "none", match_id |-> -1, value |-> -1]
DailyIdle ==
    clock = 0 /\ dpc = "off" /\ reports = {} /\ played = {} /\ failures = {}

\* --------------------------------------------------------------- helpers
NoRow == [present |-> FALSE, steam32 |-> NULL, exact_mmr |-> NULL,
          current_mmr |-> NULL, max_mmr |-> NULL, last_any_match |-> NULL,
          last_ranked_match |-> NULL, last_rank_tier |-> NULL]

NoCur == [m |-> NULL, delta |-> NULL, mmr_after |-> NULL]

Max2(a, b) == IF a >= b THEN a ELSE b

\* COALESCE(x, d)
Coalesce(x, d) == IF x = NULL THEN d ELSE x

\* int(bool(x)) as db_upsert_match stores radiant_win
BoolToInt(b) == IF b THEN 1 ELSE 0

is_player_win(player_slot, radiant_win) ==
    LET rad == player_slot < SLOT_SIDE
    IN  (rad /\ radiant_win) \/ ((~rad) /\ (~radiant_win))

\* Mutation of RowWin: the boundary slot counted to the radiant side.
RowWinBoundaryRadiant(r) ==
    \/ (r.player_slot <= SLOT_SIDE /\ r.radiant_win = 1)
    \/ (r.player_slot > SLOT_SIDE /\ r.radiant_win = 0)

\* The win rule as calc_streak_for_user and the SQL aggregates spell it, over
\* a stored row (radiant_win is 0/1 there).
RowWin(r) ==
    \/ (r.player_slot < SLOT_SIDE /\ r.radiant_win = 1)
    \/ (r.player_slot >= SLOT_SIDE /\ r.radiant_win = 0)

approx_mmr_from_rank_tier(rank_tier) ==
    IF rank_tier = NULL THEN NULL
    ELSE LET major == rank_tier \div 10
             minor == rank_tier % 10
             base  == CASE major = 1 -> 0    [] major = 2 -> 600
                        [] major = 3 -> 1200 [] major = 4 -> 1800
                        [] major = 5 -> 2600 [] major = 6 -> 3400
                        [] major = 7 -> 4400 [] major = 8 -> 5400
                        [] OTHER -> NULL
         IN  IF major \notin 1..8 THEN NULL
             ELSE IF major = 8 THEN base
             ELSE base + (minor - 1) * 200

\* ------------------------------------------------------------ store: users
db_get_all_users_with_steam ==
    LET S == {t \in TG : users[t].present /\ users[t].steam32 # NULL}
        RECURSIVE Asc(_)
        Asc(T) == IF T = {} THEN <<>>
                  ELSE LET t == CHOOSE x \in T : \A y \in T : x <= y
                       IN  <<[telegram_id |-> t,
                              steam32 |-> users[t].steam32,
                              last_any_match |-> users[t].last_any_match,
                              last_ranked_match |-> users[t].last_ranked_match]>>
                           \o Asc(T \ {t})
    IN  Asc(S)

\* As db_set_user_steam, but INSERT OR REPLACE: the row is written anew.
db_replace_user_steam(U, tg, steam32) ==
    [U EXCEPT ![tg] = [NoRow EXCEPT !.present = TRUE, !.steam32 = steam32]]

db_set_user_steam(U, tg, steam32) ==
    IF U[tg].present
    THEN [U EXCEPT ![tg].steam32 = steam32]
    ELSE [U EXCEPT ![tg] = [NoRow EXCEPT !.present = TRUE, !.steam32 = steam32]]

db_update_exact_mmr(U, tg, mmr) ==
    IF U[tg].present THEN [U EXCEPT ![tg].exact_mmr = mmr] ELSE U

db_update_auto_mmr(U, tg, mmr) ==
    IF ~U[tg].present THEN U
    ELSE IF mmr = NULL THEN [U EXCEPT ![tg].current_mmr = NULL]
    ELSE [U EXCEPT ![tg].current_mmr = mmr,
                   ![tg].max_mmr = Max2(Coalesce(U[tg].max_mmr, 0), mmr)]

\* Mutation of db_set_last_any: the any-mode watermark is not written.
db_skip_last_any(U, tg, any_id) == U

db_set_last_any(U, tg, any_id) ==
    IF U[tg].present /\ any_id # NULL
    THEN [U EXCEPT ![tg].last_any_match = any_id] ELSE U

\* Mutation of db_set_last_ranked: the any-mode watermark is written along.
db_set_last_both(U, tg, ranked_id) ==
    IF U[tg].present /\ ranked_id # NULL
    THEN [U EXCEPT ![tg].last_ranked_match = ranked_id,
                   ![tg].last_any_match = ranked_id]
    ELSE U

db_set_last_ranked(U, tg, ranked_id) ==
    IF U[tg].present /\ ranked_id # NULL
    THEN [U EXCEPT ![tg].last_ranked_match = ranked_id] ELSE U

db_set_last_rank_tier(U, tg, tier) ==
    IF U[tg].present THEN [U EXCEPT ![tg].last_rank_tier = tier] ELSE U

\* ---------------------------------------------------------- store: matches
MatchRow(steam32, m, nw, gpm, delta, mmr_after) ==
    [steam32 |-> steam32, match_id |-> m.match_id, start_time |-> m.start_time,
     lobby_type |-> m.lobby_type, radiant_win |-> BoolToInt(m.radiant_win),
     player_slot |-> m.player_slot, net_worth |-> nw, gpm |-> gpm,
     delta_mmr |-> delta, mmr_after |-> mmr_after]

SameKey(r, row) == r.steam32 = row.steam32 /\ r.match_id = row.match_id

\* Mutation of db_upsert_match: a plain INSERT without the conflict clause or
\* the primary key.
db_insert_match(M, row) == Append(M, row)

\* INSERT ... ON CONFLICT(steam32, match_id) DO UPDATE SET <every other column>
db_upsert_match(M, row) ==
    IF \E i \in 1..Len(M) : SameKey(M[i], row)
    THEN [i \in 1..Len(M) |-> IF SameKey(M[i], row) THEN row ELSE M[i]]
    ELSE Append(M, row)

\* Mutation of RowsDesc: the rows as stored, without the ORDER BY.
RowsStored(M, steam32) ==
    LET I == {i \in 1..Len(M) : M[i].steam32 = steam32}
        RECURSIVE Asc(_)
        Asc(J) == IF J = {} THEN <<>>
                  ELSE LET j == CHOOSE x \in J : \A y \in J : x <= y
                       IN  <<M[j]>> \o Asc(J \ {j})
        rs == Asc(I)
    IN  IF Len(rs) > STREAK_ROWS THEN SubSeq(rs, 1, STREAK_ROWS) ELSE rs

\* SELECT ... WHERE steam32=? ORDER BY start_time DESC LIMIT 50
RowsDesc(M, steam32) ==
    LET I == {i \in 1..Len(M) : M[i].steam32 = steam32}
        RECURSIVE Desc(_)
        Desc(J) == IF J = {} THEN <<>>
                   ELSE LET j == CHOOSE x \in J : \A y \in J :
                                   \/ M[x].start_time > M[y].start_time
                                   \/ (M[x].start_time = M[y].start_time /\ x <= y)
                        IN  <<M[j]>> \o Desc(J \ {j})
        rs == Desc(I)
    IN  IF Len(rs) > STREAK_ROWS THEN SubSeq(rs, 1, STREAK_ROWS) ELSE rs

calc_streak_for_user(M, steam32) ==
    LET rs == RowsDesc(M, steam32)
        RECURSIVE Run(_, _)
        Run(i, last_win) ==
            IF i > Len(rs) \/ RowWin(rs[i]) # last_win THEN 0
            ELSE 1 + Run(i + 1, last_win)
    IN  IF rs = <<>> THEN 0
        ELSE LET last_win == RowWin(rs[1])
                 streak == Run(1, last_win)
             IN  IF last_win THEN streak ELSE -streak

\* ------------------------------------------------------------------- Init
\* The state after construction: an empty store, poll_worker at its first
\* line, and the upstream as it happens to be: each account of S has some
\* most recent event or none, the others have none.
InitEnv(S, n) ==
    /\ users = [t \in TG |-> NoRow]
    /\ matches = <<>>
    /\ feed \in [Steam -> MatchIds \cup {NULL}]
    /\ \A s \in Steam \ S : feed[s] = NULL
    /\ rfeed = [s \in Steam |->
                  IF feed[s] # NULL /\ UpstreamMatch(feed[s]).lobby_type = RANKED_LOBBY
                  THEN feed[s] ELSE NULL]
    /\ pc = "start"
    /\ pending = <<>>
    /\ cur = NoCur
    /\ cards = [k \in TG \X MatchIds |-> <<>>]
    /\ alerts = [t \in TG |-> [win |-> 0, lose |-> 0]]
    /\ budget = n
    /\ outcome = [t \in TG |-> "none"]
    /\ basis = [t \in TG |-> [base |-> NULL, seen |-> {}, mid |-> FALSE]]
    /\ OdIdle /\ QueryIdle /\ DailyIdle

\* ------------------------------------------------------------ environment
\* The upstream's most recent event of an account changes (a match ends, or
\* the provider reorders its feed).
Play(s, mid) ==
    /\ budget > 0
    /\ feed[s] # mid
    /\ budget' = budget - 1
    /\ feed' = [feed EXCEPT ![s] = mid]
    /\ rfeed' = IF UpstreamMatch(mid).lobby_type = RANKED_LOBBY
                THEN [rfeed EXCEPT ![s] = mid] ELSE rfeed
    /\ UNCHANGED <<users, matches, pc, pending, cur, cards, alerts, outcome, basis>>
    /\ UNCHANGED <<odvars, result, dailyvars>>

\* The account poll_worker is working on.
CurTg == Head(pending).telegram_id
CurSteam == Head(pending).steam32

\* ------------------------------------------------------------ msg_handle
\* The rating a user counts as having: exact_mmr when set, else current_mmr.
Effective(row) == IF row.exact_mmr # NULL THEN row.exact_mmr ELSE row.current_mmr

\* "mmr N" with 0 < N <= 30000
MsgMmr(tg, mmr_val) ==
    /\ budget > 0
    /\ mmr_val > 0 /\ mmr_val <= 30000
    /\ budget' = budget - 1
    /\ LET U1 == db_update_exact_mmr(users, tg, mmr_val)
           u  == U1[tg]
           U2 == IF u.present /\ mmr_val > Coalesce(u.max_mmr, 0)
                 THEN [U1 EXCEPT ![tg].max_mmr = mmr_val] ELSE U1
       IN  /\ users' = U2
           /\ basis' = IF u.present
                       THEN [basis EXCEPT ![tg] =
                               [base |-> mmr_val, seen |-> {},
                                mid |-> pc = "fetch_detail" /\ CurTg = tg]]
                       ELSE basis
    /\ UNCHANGED <<matches, feed, rfeed, pc, pending, cur, cards, alerts, outcome>>
    /\ UNCHANGED <<odvars, result, dailyvars>>

\* A Steam id whose profile the upstream confirms, with the profile's rank_tier.
MsgBind(tg, steam32, rank_tier) ==
    /\ budget > 0
    /\ budget' = budget - 1
    /\ LET U1  == db_set_user_steam(users, tg, steam32)
           est == approx_mmr_from_rank_tier(rank_tier)
           U3  == IF est # NULL /\ est # 0
                  THEN db_set_last_rank_tier(db_update_auto_mmr(U1, tg, est), tg, rank_tier)
                  ELSE U1
       IN  /\ users' = U3
           /\ basis' = IF est # NULL /\ est # 0 /\ U3[tg].exact_mmr = NULL
                       THEN [basis EXCEPT ![tg] =
                               [base |-> est, seen |-> {}, mid |-> FALSE]]
                       ELSE basis
    /\ UNCHANGED <<matches, feed, rfeed, pc, pending, cur, cards, alerts, outcome>>
    /\ UNCHANGED <<odvars, result, dailyvars>>

\* ------------------------------------------------------------ poll_worker
\* Mutation of Advance: without the `continue`, a skipped account falls
\* through to the ranked bookkeeping.
AdvanceSkipFallsThrough(tg, what) ==
    /\ pending' = IF what = "skipped" THEN pending ELSE Tail(pending)
    /\ pc' = IF what = "skipped" THEN "fetch_ranked"
             ELSE IF Tail(pending) = <<>> THEN "sleep_poll" ELSE "fetch_any"
    /\ cur' = NoCur
    /\ outcome' = [outcome EXCEPT ![tg] = what]

\* Mutation of Advance: without the per-account handler, an exception leaves
\* the for loop for the top-level handler.
AdvanceRaiseLeavesCycle(tg, what) ==
    /\ pending' = IF what = "raised" THEN <<>> ELSE Tail(pending)
    /\ pc' = IF what = "raised" THEN "crashed"
             ELSE IF Tail(pending) = <<>> THEN "sleep_poll" ELSE "fetch_any"
    /\ cur' = NoCur
    /\ outcome' = [outcome EXCEPT ![tg] = what]

\* `continue` / end of the for body: on to the next account of the cycle.
Advance(tg, what) ==
    /\ pending' = Tail(pending)
    /\ pc' = IF Tail(pending) = <<>> THEN "sleep_poll" ELSE "fetch_any"
    /\ cur' = NoCur
    /\ outcome' = [outcome EXCEPT ![tg] = what]

\* init_db(); await asyncio.sleep(3)
Startup ==
    /\ pc = "start"
    /\ pc' = "iter"
    /\ UNCHANGED <<users, matches, feed, rfeed, pending, cur, cards, alerts, budget, outcome, basis>>
    /\ UNCHANGED <<odvars, result, dailyvars>>

\* init_db() raises (the store is unavailable): it stands before the try, so
\* the exception ends the task.
StartupFails ==
    /\ pc = "start"
    /\ budget > 0
    /\ budget' = budget - 1
    /\ pc' = "dead"
    /\ UNCHANGED <<users, matches, feed, rfeed, pending, cur, cards, alerts, outcome, basis>>
    /\ UNCHANGED <<odvars, result, dailyvars>>

\* Top of the while body: list the linked accounts (the store may be
\* unavailable), then the await of od_heroes_map.
ListUsers ==
    /\ pc = "iter"
    /\ LET us == db_get_all_users_with_steam
       IN  /\ pending' = us
           /\ pc' = IF us = <<>> THEN "sleep_poll" ELSE "fetch_any"
    /\ outcome' = [t \in TG |-> "none"]
    /\ UNCHANGED <<users, matches, feed, rfeed, cur, cards, alerts, basis, budget>>
    /\ UNCHANGED <<odvars, result, dailyvars>>

ListUsersFails ==
    /\ pc = "iter"
    /\ budget > 0
    /\ budget' = budget - 1
    /\ pc' = "crashed"
    /\ outcome' = [t \in TG |-> "crashed"]
    /\ UNCHANGED <<users, matches, feed, rfeed, pending, cur, cards, alerts, basis>>
    /\ UNCHANGED <<odvars, result, dailyvars>>

\* except Exception: log; await asyncio.sleep(10)
SleepFallback ==
    /\ pc = "crashed"
    /\ pc' = "iter"
    /\ UNCHANGED <<users, matches, feed, rfeed, pending, cur, cards, alerts, budget, outcome, basis>>
    /\ UNCHANGED <<odvars, result, dailyvars>>

\* await asyncio.sleep(POLL_INTERVAL)
SleepPoll ==
    /\ pc = "sleep_poll"
    /\ pc' = "iter"
    /\ UNCHANGED <<users, matches, feed, rfeed, pending, cur, cards, alerts, budget, outcome, basis>>
    /\ UNCHANGED <<odvars, result, dailyvars>>

\* Mutation of IsNewMatch: every fetched event counts as new.
IsNewMatchAlways(last_any_db, match_id) == TRUE

\* last_any_db != m.get("match_id")
IsNewMatch(last_any_db, match_id) == last_any_db # match_id

\* matches = await od_matches(steam32, limit=1, params={}); r is the id of
\* matches[0], or NULL when the call failed or returned nothing.
FetchAny(r) ==
    /\ pc = "fetch_any"
    /\ LET u == Head(pending)
       IN  /\ r \in {NULL, feed[u.steam32]}
           /\ IF r = NULL
              THEN Advance(u.telegram_id, "skipped")
              ELSE IF IsNewMatch(u.last_any_match, r)
              THEN /\ pc' = "fetch_detail"
                   /\ cur' = [NoCur EXCEPT !.m = r]
                   /\ UNCHANGED <<pending, outcome>>
              ELSE /\ pc' = "fetch_ranked"
                   /\ cur' = [NoCur EXCEPT !.m = r]
                   /\ outcome' = [outcome EXCEPT ![u.telegram_id] = "same"]
                   /\ UNCHANGED pending
    /\ UNCHANGED <<users, matches, feed, rfeed, cards, alerts, basis, budget>>
    /\ UNCHANGED <<odvars, result, dailyvars>>

\* The tracked player's entry of the match detail: found with its net worth
\* and pace, or absent (detail unavailable, or the account not among players).
DetailOutcomes == {[net_worth |-> NULL, gold_per_min |-> NULL], DetailPlayer}

\* Mutation of RatingStep: the auto rating is taken as the base before the
\* manual one.
RatingStepAutoFirst(m, dbu) ==
    LET effective == IF dbu.current_mmr # NULL THEN dbu.current_mmr ELSE dbu.exact_mmr
    IN  IF m.lobby_type = RANKED_LOBBY /\ effective # NULL
        THEN LET win   == is_player_win(m.player_slot, m.radiant_win)
                 delta == IF win THEN ASSUMED_MMR_DELTA ELSE -ASSUMED_MMR_DELTA
             IN  [delta |-> delta, mmr_after |-> effective + delta]
        ELSE [delta |-> NULL, mmr_after |-> NULL]

\* The rating step of a ranked match for a user whose rating is known:
\* [delta, mmr_after], both NULL otherwise.
RatingStep(m, dbu) ==
    LET effective == Effective(dbu)
    IN  IF m.lobby_type = RANKED_LOBBY /\ effective # NULL
        THEN LET win   == is_player_win(m.player_slot, m.radiant_win)
                 delta == IF win THEN ASSUMED_MMR_DELTA ELSE -ASSUMED_MMR_DELTA
             IN  [delta |-> delta, mmr_after |-> effective + delta]
        ELSE [delta |-> NULL, mmr_after |-> NULL]

\* Mutation of WriteRating: the new rating becomes the auto rating and the
\* manual rating is cleared.
WriteRatingClearsManual(U, tg, dbu, mmr_after) ==
    IF mmr_after = NULL THEN U
    ELSE db_update_exact_mmr(db_update_auto_mmr(U, tg, mmr_after), tg, NULL)

\* Mutation of WriteRating: the new rating is written to both fields.
WriteRatingBoth(U, tg, dbu, mmr_after) ==
    IF mmr_after = NULL THEN U
    ELSE db_update_auto_mmr(db_update_exact_mmr(U, tg, mmr_after), tg, mmr_after)

\* if dbu.get("exact_mmr") is not None: db_update_exact_mmr else db_update_auto_mmr
WriteRating(U, tg, dbu, mmr_after) ==
    IF mmr_after = NULL THEN U
    ELSE IF dbu.exact_mmr # NULL THEN db_update_exact_mmr(U, tg, mmr_after)
    ELSE db_update_auto_mmr(U, tg, mmr_after)

\* Mutation of ProcessNew: a match whose detail lacks the tracked player is
\* dropped (no record, watermark or card).
ProcessNewNeedsDetail(d, done) ==
    /\ pc = "fetch_detail"
    /\ d \in DetailOutcomes
    /\ done \in 0..3
    /\ done < 3 => budget > 0
    /\ LET u    == Head(pending)
           tg   == u.telegram_id
           m    == UpstreamMatch(cur.m)
           dbu  == users[tg]
           step == RatingStep(m, dbu)
           U1   == WriteRating(users, tg, dbu, step.mmr_after)
           M1   == db_upsert_match(matches,
                       MatchRow(u.steam32, m, d.net_worth, d.gold_per_min,
                                step.delta, step.mmr_after))
           U2   == db_set_last_any(U1, tg, m.match_id)
       IN  IF d.net_worth = NULL
           THEN /\ Advance(tg, "skipped")
                /\ UNCHANGED <<users, matches, basis, budget>>
           ELSE
           /\ users' = IF done = 0 THEN users ELSE IF done < 3 THEN U1 ELSE U2
           /\ matches' = IF done >= 2 THEN M1 ELSE matches
           /\ basis' = IF done >= 1 /\ step.mmr_after # NULL
                       THEN [basis EXCEPT ![tg].seen = @ \cup {m.match_id}]
                       ELSE basis
           /\ budget' = IF done < 3 THEN budget - 1 ELSE budget
           /\ IF done = 3
              THEN /\ pc' = "send_card"
                   /\ cur' = [m |-> cur.m, delta |-> step.delta,
                              mmr_after |-> step.mmr_after]
                   /\ outcome' = [outcome EXCEPT ![tg] = "new"]
                   /\ UNCHANGED pending
              ELSE Advance(tg, "raised")
    /\ UNCHANGED <<feed, rfeed, cards, alerts>>
    /\ UNCHANGED <<odvars, result, dailyvars>>

\* The new-match branch from the return of od_match_detail to the await of
\* bot.send_message: rating step, upsert, watermark.  The store writes happen
\* in that order; `done` is how many of them completed before one raised
\* (3: none raised).
ProcessNew(d, done) ==
    /\ pc = "fetch_detail"
    /\ d \in DetailOutcomes
    /\ done \in 0..3
    /\ done < 3 => budget > 0
    /\ LET u    == Head(pending)
           tg   == u.telegram_id
           m    == UpstreamMatch(cur.m)
           dbu  == users[tg]
           step == RatingStep(m, dbu)
           U1   == WriteRating(users, tg, dbu, step.mmr_after)
           M1   == db_upsert_match(matches,
                       MatchRow(u.steam32, m, d.net_worth, d.gold_per_min,
                                step.delta, step.mmr_after))
           U2   == db_set_last_any(U1, tg, m.match_id)
       IN  /\ users' = IF done = 0 THEN users ELSE IF done < 3 THEN U1 ELSE U2
           /\ matches' = IF done >= 2 THEN M1 ELSE matches
           /\ basis' = IF done >= 1 /\ step.mmr_after # NULL
                       THEN [basis EXCEPT ![tg].seen = @ \cup {m.match_id}]
                       ELSE basis
           /\ budget' = IF done < 3 THEN budget - 1 ELSE budget
           /\ IF done = 3
              THEN /\ pc' = "send_card"
                   /\ cur' = [m |-> cur.m, delta |-> step.delta,
                              mmr_after |-> step.mmr_after]
                   /\ outcome' = [outcome EXCEPT ![tg] = "new"]
                   /\ UNCHANGED pending
              ELSE Advance(tg, "raised")
    /\ UNCHANGED <<feed, rfeed, cards, alerts>>
    /\ UNCHANGED <<odvars, result, dailyvars>>

\* Mutation of CardRating: the card shows the rating before the step.
CardRatingBefore(m, mmr_after, delta) ==
    IF m.lobby_type = RANKED_LOBBY /\ mmr_after # NULL /\ delta # NULL
    THEN mmr_after - delta ELSE NULL

\* The rating line of the card: shown for a ranked match with a rating step.
CardRating(m, mmr_after, delta) ==
    IF m.lobby_type = RANKED_LOBBY /\ mmr_after # NULL /\ delta # NULL
    THEN mmr_after ELSE NULL

\* Mutation of SendCard: a streak alert goes out only when the streak has just
\* reached the threshold.
SendCardAtThresholdOnly(delivered, raised) ==
    /\ pc = "send_card"
    /\ delivered \in BOOLEAN
    /\ raised \in BOOLEAN
    /\ raised => budget > 0
    /\ LET u      == Head(pending)
           tg     == u.telegram_id
           m      == UpstreamMatch(cur.m)
           streak == calc_streak_for_user(matches, u.steam32)
       IN  /\ cards' = IF delivered
                       THEN [cards EXCEPT ![<<tg, cur.m>>] =
                               Append(@, CardRating(m, cur.mmr_after, cur.delta))]
                       ELSE cards
           /\ alerts' = IF raised THEN alerts
                        ELSE [alerts EXCEPT
                                ![tg].win = IF streak = STREAK_NOTIFY_WIN
                                            THEN @ + 1 ELSE @,
                                ![tg].lose = IF streak = -STREAK_NOTIFY_LOSE
                                             THEN @ + 1 ELSE @]
           /\ budget' = IF raised THEN budget - 1 ELSE budget
           /\ IF raised
              THEN Advance(tg, "raised")
              ELSE /\ pc' = "fetch_ranked"
                   /\ UNCHANGED <<pending, cur, outcome>>
    /\ UNCHANGED <<users, matches, feed, rfeed, basis>>
    /\ UNCHANGED <<odvars, result, dailyvars>>

\* send_match_card's bot.send_message (a failure is caught inside), then the
\* streak recomputation and its alerts (a failure reaches the per-account
\* handler).
SendCard(delivered, raised) ==
    /\ pc = "send_card"
    /\ delivered \in BOOLEAN
    /\ raised \in BOOLEAN
    /\ raised => budget > 0
    /\ LET u      == Head(pending)
           tg     == u.telegram_id
           m      == UpstreamMatch(cur.m)
           streak == calc_streak_for_user(matches, u.steam32)
       IN  /\ cards' = IF delivered
                       THEN [cards EXCEPT ![<<tg, cur.m>>] =
                               Append(@, CardRating(m, cur.mmr_after, cur.delta))]
                       ELSE cards
           /\ alerts' = IF raised THEN alerts
                        ELSE [alerts EXCEPT
                                ![tg].win = IF streak >= STREAK_NOTIFY_WIN
                                            THEN @ + 1 ELSE @,
                                ![tg].lose = IF streak <= -STREAK_NOTIFY_LOSE
                                             THEN @ + 1 ELSE @]
           /\ budget' = IF raised THEN budget - 1 ELSE budget
           /\ IF raised
              THEN Advance(tg, "raised")
              ELSE /\ pc' = "fetch_ranked"
                   /\ UNCHANGED <<pending, cur, outcome>>
    /\ UNCHANGED <<users, matches, feed, rfeed, basis>>
    /\ UNCHANGED <<odvars, result, dailyvars>>

\* ranked_matches = await od_matches(steam32, limit=1, params={"lobby_type":7});
\* rid is its id, or NULL when the call failed or returned nothing.
FetchRanked(rid, raised) ==
    /\ pc = "fetch_ranked"
    /\ raised \in BOOLEAN
    /\ LET u  == Head(pending)
           tg == u.telegram_id
           write == rid # NULL /\ u.last_ranked_match # rid
       IN  /\ rid \in {NULL, rfeed[u.steam32]}
           /\ raised => (write /\ budget > 0)
           /\ users' = IF write /\ ~raised
                       THEN db_set_last_ranked(users, tg, rid) ELSE users
           /\ budget' = IF raised THEN budget - 1 ELSE budget
           /\ Advance(tg, IF raised THEN "raised" ELSE outcome[tg])
    /\ UNCHANGED <<matches, feed, rfeed, cards, alerts, basis>>
    /\ UNCHANGED <<odvars, result, dailyvars>>

\* --------------------------------------------------------- specifications
Worker ==
    \/ Startup
    \/ StartupFails
    \/ ListUsers
    \/ ListUsersFails
    \/ SleepFallback
    \/ SleepPoll
    \/ \E r \in MatchIds \cup {NULL} : FetchAny(r)
    \/ \E d \in DetailOutcomes, done \in 0..3 : ProcessNew(d, done)
    \/ \E delivered \in BOOLEAN, raised \in BOOLEAN : SendCard(delivered, raised)
    \/ \E rid \in MatchIds \cup {NULL}, raised \in BOOLEAN : FetchRanked(rid, raised)

\* The environment of chat users T and external accounts S.
Env(T, S) ==
    \/ \E s \in S, mid \in MatchIds : Play(s, mid)
    \/ \E tg \in T, v \in MmrInputs : MsgMmr(tg, v)
    \/ \E tg \in T, s \in S, rt \in RankTiers : MsgBind(tg, s, rt)

\* One chat user, one external account.
Init == InitEnv({10}, MaxEvents)
Next == Worker \/ Env({1}, {10})
Spec == Init /\ [][Next]_vars

\* The event loop keeps scheduling poll_worker: each of its awaits returns.
FairSpec == Spec /\ WF_vars(Worker)

\* One chat user who may bind either of two external accounts.
InitRebind == InitEnv(Steam, MaxEventsRebind)
NextRebind == Worker \/ Env({1}, Steam)
SpecRebind == InitRebind /\ [][NextRebind]_vars

\* Two chat users of one external account.
InitTwo == InitEnv({10}, MaxEventsTwo)
NextTwo == Worker \/ Env(TG, {10})
SpecTwo == InitTwo /\ [][NextTwo]_vars

\* Chat user 1 already tracks account 10: n earlier matches of one outcome are
\* stored (ids 501.., played before the upstream's current ones) and the
\* watermark stands at the last of them.
MaxEventsStreak == 2

EarlierRun(n, win) ==
    [i \in 1..n |->
        MatchRow(10, [match_id |-> 500 + i, start_time |-> i - n, lobby_type |-> 0,
                      player_slot |-> 0, radiant_win |-> win],
                 NULL, NULL, NULL, NULL)]

InitStreak ==
    /\ \E n \in {STREAK_NOTIFY_WIN - 2, STREAK_NOTIFY_WIN - 1}, win \in BOOLEAN :
          /\ matches = EarlierRun(n, win)
          /\ users = [t \in TG |->
                        IF t = 1
                        THEN [NoRow EXCEPT !.present = TRUE, !.steam32 = 10,
                                           !.last_any_match = 500 + n]
                        ELSE NoRow]
    /\ feed \in [Steam -> MatchIds \cup {NULL}]
    /\ feed[20] = NULL
    /\ rfeed = [s \in Steam |->
                  IF feed[s] # NULL /\ UpstreamMatch(feed[s]).lobby_type = RANKED_LOBBY
                  THEN feed[s] ELSE NULL]
    /\ pc = "start"
    /\ pending = <<>>
    /\ cur = NoCur
    /\ cards = [k \in TG \X MatchIds |-> <<>>]
    /\ alerts = [t \in TG |-> [win |-> 0, lose |-> 0]]
    /\ budget = MaxEventsStreak
    /\ outcome = [t \in TG |-> "none"]
    /\ basis = [t \in TG |-> [base |-> NULL, seen |-> {}, mid |-> FALSE]]
    /\ OdIdle /\ QueryIdle /\ DailyIdle

SpecStreak == InitStreak /\ [][Next]_vars

\* ------------------------------------------------------------------ od_get
CACHE_TTL == 90
POLL_INTERVAL == 60

\* The wall clock of the od_get specification stops at MaxClock seconds, and
\* at most MaxCalls calls are made.
MaxClock == 180
MaxCalls == 4

\* JSON documents the upstream may answer with.
OdBodies == {1, 2}

\* What the upstream does with a request: a 2xx answer with a JSON body, a
\* 404, another non-2xx status, a 2xx answer whose body is no JSON, a
\* connection error, no answer within the timeout.
OdFailures == {"status", "malformed", "network", "timeout"}
OdResponses ==
    {[kind |-> "ok", body |-> b] : b \in OdBodies}
    \cup {[kind |-> k, body |-> NULL] : k \in {"not_found"} \cup OdFailures}

\* key = path + (f"?{json.dumps(params, sort_keys=True)}" if params else "");
\* params is the set of the dict's <<name, value>> pairs (the dump sorts the
\* names), empty for None as for {}; an empty query stands for no "?" part.
od_key(path, params) ==
    [path |-> path, query |-> IF params = {} THEN {} ELSE params]

\* The arguments the wrappers hand to od_get.
od_matches(steam32, limit, params) ==
    [path |-> <<"players", steam32, "matches">>,
     params |-> (IF limit # 0 THEN {<<"limit", limit>>} ELSE {}) \cup params,
     use_cache |-> TRUE]

od_match_detail(match_id) ==
    [path |-> <<"matches", match_id>>, params |-> {}, use_cache |-> FALSE]

\* The calls poll_worker makes for account 10 and match 555.
OdCalls ==
    {od_matches(10, 1, {}), od_matches(10, 1, {<<"lobby_type", RANKED_LOBBY>>}),
     od_match_detail(555)}

OdKeys == {od_key(c.path, c.params) : c \in OdCalls}

NoEntry == [ts |-> NULL, data |-> NULL]
NoCall == [n |-> 0, at |-> NULL, key |-> NULL, use_cache |-> FALSE, net |-> FALSE,
           kind |-> "none", raised |-> FALSE, data |-> NULL]

\* The body of the try: the value it assigns to data, or an exception
\* (raise_for_status, r.json(), an aiohttp error, the timeout).
od_request(resp) ==
    IF resp.kind = "not_found" THEN [exc |-> FALSE, data |-> NULL]
    ELSE IF resp.kind = "ok" THEN [exc |-> FALSE, data |-> resp.body]
    ELSE [exc |-> TRUE, data |-> NULL]

\* Mutation of od_except: no handler around the request.
od_except_missing(out) == [raised |-> out.exc, data |-> out.data]

\* except Exception as e: log; data = None
od_except(out) ==
    [raised |-> FALSE, data |-> IF out.exc THEN NULL ELSE out.data]

\* Mutation of od_fresh: an entry never expires.
od_fresh_forever(now, ts) == TRUE

\* Mutation of od_fresh: an entry exactly CACHE_TTL old still counts.
od_fresh_inclusive(now, ts) == now - ts <= CACHE_TTL

\* now - ts < CACHE_TTL
od_fresh(now, ts) == now - ts < CACHE_TTL

\* od_get(path, params, use_cache), the upstream answering resp if asked.
\* od_last keeps the call: its number, time and key, whether a network
\* request was made and how it was answered, and what the caller got.
od_get(path, params, use_cache, resp) ==
    /\ od_last.n < MaxCalls
    /\ LET key == od_key(path, params)
           now == od_now
           hit == /\ use_cache
                  /\ od_cache[key] # NoEntry
                  /\ od_fresh(now, od_cache[key].ts)
           out == od_except(od_request(resp))
           call == [n |-> od_last.n + 1, at |-> now, key |-> key,
                    use_cache |-> use_cache]
       IN  IF hit
           THEN /\ od_last' = call @@ [net |-> FALSE, kind |-> "none", raised |-> FALSE,
                                       data |-> od_cache[key].data]
                /\ UNCHANGED od_cache
           ELSE /\ od_last' = call @@ [net |-> TRUE, kind |-> resp.kind,
                                       raised |-> out.raised, data |-> out.data]
                /\ od_cache' = IF out.raised THEN od_cache
                               ELSE [od_cache EXCEPT ![key] = [ts |-> now, data |-> out.data]]
    /\ UNCHANGED od_now
    /\ UNCHANGED <<pollvars, result, dailyvars>>

\* Time passes between calls: half a poll interval or a whole one.
OdElapses == {POLL_INTERVAL \div 2, POLL_INTERVAL}

OdElapse(d) ==
    /\ od_now + d <= MaxClock
    /\ od_now' = od_now + d
    /\ UNCHANGED <<od_cache, od_last>>
    /\ UNCHANGED <<pollvars, result, dailyvars>>

\* The poll specification's variables, for a specification without
\* poll_worker: the matches table holds M, and n events are to come.
PollOff(M, n) ==
    /\ users = [t \in TG |-> NoRow]
    /\ matches = M
    /\ feed = [s \in Steam |-> NULL]
    /\ rfeed = [s \in Steam |-> NULL]
    /\ pc = "off"
    /\ pending = <<>>
    /\ cur = NoCur
    /\ cards = [k \in TG \X MatchIds |-> <<>>]
    /\ alerts = [t \in TG |-> [win |-> 0, lose |-> 0]]
    /\ budget = n
    /\ outcome = [t \in TG |-> "none"]
    /\ basis = [t \in TG |-> [base |-> NULL, seen |-> {}, mid |-> FALSE]]

\* od_get on its own: an empty cache at module load, then any of the calls
\* at any time, the upstream answering in any way.
InitOd ==
    /\ od_cache = [k \in OdKeys |-> NoEntry]
    /\ od_now = 0
    /\ od_last = NoCall
    /\ PollOff(<<>>, 0) /\ QueryIdle /\ DailyIdle

NextOd ==
    \/ \E c \in OdCalls, resp \in OdResponses :
          od_get(c.path, c.params, c.use_cache, resp)
    \/ \E d \in OdElapses : OdElapse(d)

SpecOd == InitOd /\ [][NextOd]_vars

\* ------------------------------------------------- store queries on their own
\* At most MaxHistory matches are stored on top of the initial table.
MaxHistory == 5

\* A match summary of the upstream for the tracked account: on either side of
\* the slot boundary, radiant having won or lost, played at time t.
HistMatch(t, slot, radiant_win) ==
    [match_id |-> t, start_time |-> t, lobby_type |-> 0,
     player_slot |-> slot, radiant_win |-> radiant_win]

HistSlots == {SLOT_SIDE - 1, SLOT_SIDE}

\* A table of STREAK_ROWS matches of account 10 with one outcome.
LongRun(win) ==
    [i \in 1..STREAK_ROWS |->
        MatchRow(10, HistMatch(100 + i, 0, win), NULL, NULL, NULL, NULL)]

\* The start time of one more match: later than every stored one, or earlier
\* (a match the upstream serves late).
HistTime(M, newer) ==
    IF M = <<>> THEN 100
    ELSE IF newer
    THEN 1 + (CHOOSE t \in {M[i].start_time : i \in 1..Len(M)} :
                 \A i \in 1..Len(M) : M[i].start_time <= t)
    ELSE (CHOOSE t \in {M[i].start_time : i \in 1..Len(M)} :
                 \A i \in 1..Len(M) : M[i].start_time >= t) - 1

\* A match is classified (is_player_win) and stored (db_upsert_match).
HistAdd(slot, radiant_win, newer) ==
    /\ budget > 0
    /\ budget' = budget - 1
    /\ LET m == HistMatch(HistTime(matches, newer), slot, radiant_win)
       IN  /\ matches' = db_upsert_match(matches,
                             MatchRow(10, m, NULL, NULL, NULL, NULL))
           /\ result' = [query |-> "is_player_win", match_id |-> m.match_id,
                         value |-> is_player_win(m.player_slot, m.radiant_win)]
    /\ UNCHANGED <<users, feed, rfeed, pc, pending, cur, cards, alerts, outcome, basis>>
    /\ UNCHANGED <<odvars, dailyvars>>

\* streak = calc_streak_for_user(str(steam32))
HistStreak ==
    /\ result' = [query |-> "calc_streak_for_user", match_id |-> NULL,
                  value |-> calc_streak_for_user(matches, 10)]
    /\ UNCHANGED <<pollvars, odvars, dailyvars>>

\* The store queries on their own: the table is empty or holds a long run of
\* one outcome, matches are stored and the streak is computed at any time.
InitHist ==
    /\ \E M \in {<<>>, LongRun(TRUE), LongRun(FALSE)} :
          PollOff(M, IF M = <<>> THEN MaxHistory ELSE 1)
    /\ QueryIdle /\ OdIdle /\ DailyIdle

NextHist ==
    \/ \E slot \in HistSlots, rw \in BOOLEAN, newer \in BOOLEAN :
          HistAdd(slot, rw, newer)
    \/ HistStreak

SpecHist == InitHist /\ [][NextHist]_vars

\* ------------------------------------------------------------ daily_worker
MSK_OFFSET == 3
DAILY_REPORT_HOUR == 23
DAILY_REPORT_MINUTE == 59
DAY_SECONDS == 86400
HOUR_SECONDS == 3600

\* The wall clock counts ticks, TicksPerSecond to the second (datetime.now
\* has microseconds); timestamps of matches are whole seconds.  A run covers
\* the local days before day MaxDays.
TicksPerSecond == 4
MaxDays == 2

Ticks(seconds) == seconds * TicksPerSecond

\* now_msk = now_utc + timedelta(hours=MSK_OFFSET)
now_msk(now_utc) == now_utc + Ticks(MSK_OFFSET * HOUR_SECONDS)

\* x.replace(hour=0, minute=0, second=0, microsecond=0)
DayStart(t) == t - (t % Ticks(DAY_SECONDS))

\* The local day a UTC instant falls in.
LocalDay(now_utc) == now_msk(now_utc) \div Ticks(DAY_SECONDS)

\* The UTC second at which local day d begins.
Midnight(d) == d * DAY_SECONDS - MSK_OFFSET * HOUR_SECONDS

\* The local instant of day d at which the report is due.
DueAt(d) ==
    Ticks(d * DAY_SECONDS + DAILY_REPORT_HOUR * HOUR_SECONDS + DAILY_REPORT_MINUTE * 60)

\* int((target - now_msk).total_seconds())
seconds_until_daily(now_utc) ==
    LET now    == now_msk(now_utc)
        today  == DayStart(now) + Ticks(DAILY_REPORT_HOUR * HOUR_SECONDS
                                        + DAILY_REPORT_MINUTE * 60)
        target == IF today <= now THEN today + Ticks(DAY_SECONDS) ELSE today
    IN  (target - now) \div TicksPerSecond

\* await asyncio.sleep(5)
DailyStartup ==
    /\ dpc = "start"
    /\ dpc' = "loop"
    /\ clock' = clock + Ticks(5)
    /\ UNCHANGED <<reports, played, failures>>
    /\ UNCHANGED <<pollvars, odvars, result>>

\* wait = seconds_until_daily(); await asyncio.sleep(wait): the sleep returns
\* after wait seconds, or lag ticks later.
DailySleep(lag) ==
    /\ dpc = "loop"
    /\ LET woke == clock + Ticks(seconds_until_daily(clock)) + lag
       IN  /\ LocalDay(woke) < MaxDays
           /\ clock' = woke
    /\ dpc' = "woke"
    /\ UNCHANGED <<reports, played, failures>>
    /\ UNCHANGED <<pollvars, odvars, result>>

\* The account whose upstream matches are in played; the upstream lists no
\* match for any other account.
DailyAccount == CHOOSE s \in Steam : \A x \in Steam : s <= x

\* As DailySent, but the loop ends at the first account whose body raises.
DailySentUntilFailure(us, failed) ==
    {i \in 1..Len(us) : \A k \in 1..i : us[k].telegram_id \notin failed}

\* The accounts of the list whose body of the for loop ran to its end: the
\* try/except inside the loop catches what the body of one account raises
\* and the loop goes on with the next.
DailySent(us, failed) == {i \in 1..Len(us) : us[i].telegram_id \notin failed}

\* The iteration after the sleep: the day's window [start_ts, end_ts], then
\* for every linked account the upstream's matches inside it (none when the
\* fetch failed) and the summary sent, with the "did not play today" line
\* when games == 0; the body raises for the accounts in failed (the query or
\* the send), and the sends take dur ticks.
DailyReport(dur, fetched, failed) ==
    /\ dpc = "woke"
    /\ LET start_utc == DayStart(now_msk(clock)) - Ticks(MSK_OFFSET * HOUR_SECONDS)
           start_ts  == start_utc \div TicksPerSecond
           end_ts    == clock \div TicksPerSecond
           us        == db_get_all_users_with_steam
           arr(u)    == IF u.telegram_id \in fetched /\ u.steam32 = DailyAccount
                        THEN {t \in played : Ticks(t) <= clock} ELSE {}
           today(u)  == {t \in arr(u) : start_ts <= t /\ t <= end_ts}
           games(u)  == Cardinality(today(u))
       IN  /\ reports' = reports \cup
                {[tg |-> us[i].telegram_id, at |-> clock,
                  fetched |-> us[i].telegram_id \in fetched,
                  start_ts |-> start_ts, end_ts |-> end_ts,
                  today |-> today(us[i]), games |-> games(us[i]),
                  not_played_line |-> (games(us[i]) = 0)] :
                    i \in DailySent(us, failed)}
           /\ failures' = failures \cup
                {[tg |-> us[i].telegram_id, at |-> clock] :
                    i \in {j \in 1..Len(us) : us[j].telegram_id \in failed}}
    /\ clock' = clock + dur
    /\ dpc' = "loop"
    /\ UNCHANGED played
    /\ UNCHANGED <<pollvars, odvars, result>>

\* except Exception (listing the accounts raised): log; sleep(30)
DailyCrash ==
    /\ dpc = "woke"
    /\ clock' = clock + Ticks(30)
    /\ dpc' = "loop"
    /\ UNCHANGED <<reports, played, failures>>
    /\ UNCHANGED <<pollvars, odvars, result>>

\* How long the sends of one iteration take, and how late a sleep may return.
DailyDurations == {1, TicksPerSecond + 1}
DailyLags == {0, 1}

\* The matches of the tracked account the upstream will list: any of one that
\* starts at local midnight of day 1 and one that starts a second earlier.
DailyMatches == {Midnight(1) - 1, Midnight(1)}

\* daily_worker on its own: chat user 1 tracks account 10, and the task
\* starts on local day 0 at 23:58:50 or a fraction of a second later.
InitDaily ==
    /\ clock \in {Ticks(Midnight(0) + DAY_SECONDS - 70) + f : f \in {0, TicksPerSecond \div 2}}
    /\ dpc = "start"
    /\ reports = {}
    /\ failures = {}
    /\ played \in SUBSET DailyMatches
    /\ users = [t \in TG |->
                  IF t = 1 THEN [NoRow EXCEPT !.present = TRUE, !.steam32 = 10]
                  ELSE NoRow]
    /\ matches = <<>>
    /\ feed = [s \in Steam |-> NULL]
    /\ rfeed = [s \in Steam |-> NULL]
    /\ pc = "off"
    /\ pending = <<>>
    /\ cur = NoCur
    /\ cards = [k \in TG \X MatchIds |-> <<>>]
    /\ alerts = [t \in TG |-> [win |-> 0, lose |-> 0]]
    /\ budget = 0
    /\ outcome = [t \in TG |-> "none"]
    /\ basis = [t \in TG |-> [base |-> NULL, seen |-> {}, mid |-> FALSE]]
    /\ OdIdle /\ QueryIdle

NextDaily ==
    \/ DailyStartup
    \/ \E lag \in DailyLags : DailySleep(lag)
    \/ \E dur \in DailyDurations, fetched \in SUBSET TG, failed \in SUBSET TG :
          DailyReport(dur, fetched, failed)
    \/ DailyCrash

SpecDaily == InitDaily /\ [][NextDaily]_vars

\* daily_worker with two linked accounts: chat user 1 tracks DailyAccount and
\* chat user 2 tracks the other account, which plays nothing; the task starts
\* on local day 0 at 23:58:50.
InitDailyTwo ==
    /\ clock = Ticks(Midnight(0) + DAY_SECONDS - 70)
    /\ dpc = "start"
    /\ reports = {}
    /\ failures = {}
    /\ played = DailyMatches
    /\ users = [t \in TG |->
                  [NoRow EXCEPT !.present = TRUE,
                                !.steam32 = IF t = 1 THEN DailyAccount ELSE 20]]
    /\ matches = <<>>
    /\ feed = [s \in Steam |-> NULL]
    /\ rfeed = [s \in Steam |-> NULL]
    /\ pc = "off"
    /\ pending = <<>>
    /\ cur = NoCur
    /\ cards = [k \in TG \X MatchIds |-> <<>>]
    /\ alerts = [t \in TG |-> [win |-> 0, lose |-> 0]]
    /\ budget = 0
    /\ outcome = [t \in TG |-> "none"]
    /\ basis = [t \in TG |-> [base |-> NULL, seen |-> {}, mid |-> FALSE]]
    /\ OdIdle /\ QueryIdle

SpecDailyTwo == InitDailyTwo /\ [][NextDaily]_vars

\* ------------------------------------------- msg_handle, text to reply
\* A message text is the sequence of its characters.
LowerCase == <<"a", "b", "c", "d", "e", "f", "g", "h", "i", "j", "k", "l", "m",
      "n", "o", "p", "q", "r", "s", "t", "u", "v", "w", "x", "y", "z">>
UpperCase == <<"A", "B", "C", "D", "E", "F", "G", "H", "I", "J", "K", "L", "M",
      "N", "O", "P", "Q", "R", "S", "T", "U", "V", "W", "X", "Y", "Z">>
Digit == <<"0", "1", "2", "3", "4", "5", "6", "7", "8", "9">>

\* re.I: a letter matches in either case.
LowerChar(c) ==
    IF \E i \in 1..Len(UpperCase) : UpperCase[i] = c
    THEN LowerCase[CHOOSE i \in 1..Len(UpperCase) : UpperCase[i] = c]
    ELSE c
Lower(t) == [i \in 1..Len(t) |-> LowerChar(t[i])]

\* \s of the model's texts
IsSpace(c) == c = " "
IsDigitChar(c) == \E i \in 1..Len(Digit) : Digit[i] = c
DigitValue(c) == (CHOOSE i \in 1..Len(Digit) : Digit[i] = c) - 1

LStrip(t) ==
    LET RECURSIVE L(_)
        L(x) == IF x # <<>> /\ IsSpace(Head(x)) THEN L(Tail(x)) ELSE x
    IN  L(t)
RStrip(t) ==
    LET RECURSIVE R(_)
        R(x) == IF x # <<>> /\ IsSpace(x[Len(x)])
                THEN R(SubSeq(x, 1, Len(x) - 1)) ELSE x
    IN  R(t)
\* str.strip()
strip(t) == RStrip(LStrip(t))

\* str.isdigit()
isdigit(t) == t # <<>> /\ \A i \in 1..Len(t) : IsDigitChar(t[i])

\* int(t) of a string of digits
int(t) ==
    LET RECURSIVE V(_)
        V(x) == IF x = <<>> THEN 0
                ELSE 10 * V(SubSeq(x, 1, Len(x) - 1)) + DigitValue(x[Len(x)])
    IN  V(t)

\* pat in t, from position i on
StartsWith(t, i, pat) ==
    /\ i + Len(pat) - 1 <= Len(t)
    /\ SubSeq(t, i, i + Len(pat) - 1) = pat
Contains(t, pat) == \E i \in 1..Len(t) : StartsWith(t, i, pat)

\* The group of ^\s*mmr\s*[:=]?\s*(\d{2,5})\s*$ with re.I, or <<>> when the
\* text does not match (the second pattern, ^\s*mmr(\d{2,5})\s*$, matches
\* nothing the first does not).
mmr_match(txt) ==
    LET a == LStrip(txt)
    IN  IF ~StartsWith(Lower(a), 1, <<"m", "m", "r">>) THEN <<>>
        ELSE LET b == LStrip(SubSeq(a, 4, Len(a)))
                 c == IF b # <<>> /\ Head(b) \in {":", "="} THEN Tail(b) ELSE b
                 d == strip(c)
             IN  IF isdigit(d) /\ Len(d) >= 2 /\ Len(d) <= 5 THEN d ELSE <<>>

\* STEAM64_OFFSET = 76561197960265728, as its leading digits and its last
\* nine digits (Billion = 10^9).
Billion == 1000000000
STEAM64_OFFSET == <<76561197, 960265728>>

\* int(part) - STEAM64_OFFSET for a string of 16 digits or more.  Python's
\* integers are unbounded; the texts of the model have the leading digits of
\* the offset, so the difference is that of the last nine digits.
MinusOffset(part) ==
    LET hi == int(SubSeq(part, 1, Len(part) - 9))
        lo == int(SubSeq(part, Len(part) - 8, Len(part)))
    IN  (hi - STEAM64_OFFSET[1]) * Billion + (lo - STEAM64_OFFSET[2])

HostPath == <<"s", "t", "e", "a", "m", "c", "o", "m", "m", "u", "n", "i", "t",
      "y", ".", "c", "o", "m", "/">>
ProfileKinds == {<<"i", "d", "/">>, <<"p", "r", "o", "f", "i", "l", "e", "s", "/">>}

\* STEAM_PROFILE_RE.search(text).group(1): the run of characters other than
\* "/" and whitespace after the leftmost steamcommunity.com/id/ or
\* steamcommunity.com/profiles/ that has one; <<>> when there is no match.
profile_part(text) ==
    LET low == Lower(text)
        From(i) == {i + Len(HostPath) + Len(k) : 
                      k \in {p \in ProfileKinds :
                               /\ StartsWith(low, i, HostPath)
                               /\ StartsWith(low, i + Len(HostPath), p)}}
        Ok(j) == j <= Len(text) /\ text[j] # "/" /\ ~IsSpace(text[j])
        Starts == {j \in UNION {From(i) : i \in 1..Len(text)} : Ok(j)}
    IN  IF Starts = {} THEN <<>>
        ELSE LET j == CHOOSE x \in Starts : \A y \in Starts : x <= y
                 e == CHOOSE x \in j..Len(text) :
                        /\ \A y \in j..x : Ok(y)
                        /\ x = Len(text) \/ ~Ok(x + 1)
             IN  SubSeq(text, j, e)

parse_steam_any(txt) ==
    LET text == strip(txt)
        part == profile_part(text)
    IN  IF part # <<>>
        THEN IF isdigit(part) /\ Len(part) >= 16 THEN MinusOffset(part) ELSE NULL
        ELSE IF isdigit(text)
             THEN IF Len(text) >= 16 THEN MinusOffset(text) ELSE int(text)
             ELSE NULL

\* The texts chat users send.
TxtMmr ==
    <<"m", "m", "r", " ", "4", "1", "0", "0">>
TxtMmrUpper ==
    <<"M", "M", "R", "=", "4", "1", "0", "0", " ">>
TxtMmrZero ==
    <<"m", "m", "r", " ", "0", "0">>
TxtMmrHigh ==
    <<"m", "m", "r", ":", "3", "0", "0", "0", "1">>
TxtMmrWord ==
    <<"m", "m", "r", " ", "a", "b", "c">>
TxtMmrOneDigit ==
    <<"m", "m", "r", " ", "5">>
TxtSteam32 ==
    <<"1", "0">>
TxtSteam32Other ==
    <<"2", "0">>
TxtSteam32Unknown ==
    <<"3", "0">>
TxtProfileUrl ==
    <<"h", "t", "t", "p", "s", ":", "/", "/", "s", "t", "e", "a", "m",
      "c", "o", "m", "m", "u", "n", "i", "t", "y", ".", "c", "o", "m",
      "/", "p", "r", "o", "f", "i", "l", "e", "s", "/", "7", "6", "5",
      "6", "1", "1", "9", "7", "9", "6", "0", "2", "6", "5", "7", "3",
      "8">>
TxtVanityUrl ==
    <<"s", "t", "e", "a", "m", "c", "o", "m", "m", "u", "n", "i", "t",
      "y", ".", "c", "o", "m", "/", "i", "d", "/", "a", "b", "c">>
TxtSteam64 ==
    <<"7", "6", "5", "6", "1", "1", "9", "7", "9", "6", "0", "2", "6",
      "5", "7", "4", "8">>
TxtWord ==
    <<"a", "b", "c">>
TxtBlank ==
    <<" ">>
Texts ==
    {TxtMmr, TxtMmrUpper, TxtMmrZero, TxtMmrHigh,
     TxtMmrWord, TxtMmrOneDigit, TxtSteam32, TxtSteam32Other,
     TxtSteam32Unknown, TxtProfileUrl, TxtVanityUrl, TxtSteam64,
     TxtWord, TxtBlank}

\* rank_tier values a verified profile may carry in this part of the model:
\* none, Herald 1 and 5, Ancient 4, Immortal (80), Immortal with a rank, and
\* a tier of no known major rank.
ProfileRankTiers == {NULL, 11, 15, 64, 80, 85, 91}

\* What od_player(steam32) may return: None (not found, or any failure), a
\* body without a profile, or a body with the profile and its rank_tier; the
\* upstream knows the accounts in Steam only.
PlayerResponses(steam32) ==
    {[body |-> b, rank_tier |-> NULL] : b \in {"none", "no_profile"}}
    \cup (IF steam32 \in Steam
          THEN {[body |-> "profile", rank_tier |-> r] : r \in ProfileRankTiers}
          ELSE {})

\* What msg_handle computes from the text alone, for each text of the model:
\* txt, the group of the rating pattern, whether the text is taken for a
\* Steam id, and what parse_steam_any makes of it.
Parsed ==
    [t \in Texts |->
        LET txt == strip(t)
        IN  [txt |-> txt,
             group |-> mmr_match(txt),
             steam_like |-> Contains(txt, SubSeq(HostPath, 1, Len(HostPath) - 1))
                            \/ isdigit(txt),
             steam32 |-> parse_steam_any(txt)]]

\* msg_handle(m) for a message of chat user tg with text m.text, the upstream
\* answering the profile lookup with pl; result is the reply sent ("none"
\* when the handler returns without replying) with what the handler parsed.
msg_handle(tg, m_text, pl) ==
    LET txt   == Parsed[m_text].txt
        group == Parsed[m_text].group
        Done(U, reply, value, looked) ==
            /\ users' = U
            /\ result' = [query |-> "msg_handle", tg |-> tg, text |-> m_text,
                          reply |-> reply, value |-> value,
                          pl |-> IF looked THEN pl.body ELSE "",
                          rank_tier |-> IF looked THEN pl.rank_tier ELSE NULL]
    IN  /\ budget > 0
        /\ budget' = budget - 1
        /\ IF txt = <<>> THEN Done(users, "none", NULL, FALSE)
           ELSE IF group # <<>>
           THEN LET mmr_val == int(group)
                    U1 == db_update_exact_mmr(users, tg, mmr_val)
                    u  == U1[tg]
                    U2 == IF u.present /\ mmr_val > Coalesce(u.max_mmr, 0)
                          THEN [U1 EXCEPT ![tg].max_mmr = mmr_val] ELSE U1
                IN  IF mmr_val <= 0 \/ mmr_val > 30000
                    THEN Done(users, "bad_mmr", mmr_val, FALSE)
                    ELSE Done(U2, "mmr_saved", mmr_val, FALSE)
           ELSE IF Parsed[m_text].steam_like
           THEN LET steam32 == Parsed[m_text].steam32
                    U1  == db_set_user_steam(users, tg, steam32)
                    est == approx_mmr_from_rank_tier(pl.rank_tier)
                    U3  == IF est # NULL /\ est # 0
                           THEN db_set_last_rank_tier(
                                    db_update_auto_mmr(U1, tg, est), tg, pl.rank_tier)
                           ELSE U1
                IN  IF steam32 = NULL THEN Done(users, "bad_steam", NULL, FALSE)
                    ELSE /\ pl \in PlayerResponses(steam32)
                         /\ IF pl.body # "profile"
                            THEN Done(users, "not_found", steam32, TRUE)
                            ELSE Done(U3, "bound", steam32, TRUE)
           ELSE Done(users, "none", NULL, FALSE)
        /\ UNCHANGED <<matches, feed, rfeed, pc, pending, cur, cards, alerts,
                       outcome, basis>>
        /\ UNCHANGED <<odvars, dailyvars>>

\* The messages of a run of msg_handle on its own.
MaxMsgs == 2

\* A stored row of chat user 1 before the first message of a run: bound to
\* the first account, with or without a manual rating, with an auto rating,
\* watermarks and a rank tier.
BoundRows ==
    {[present |-> TRUE, steam32 |-> 10, exact_mmr |-> e, current_mmr |-> 3000,
      max_mmr |-> Max2(3000, Coalesce(e, 0)), last_any_match |-> 555,
      last_ranked_match |-> 555, last_rank_tier |-> 53] : e \in {NULL, 3500}}

\* msg_handle on its own: chat user 1 has no row or one of BoundRows, chat
\* user 2 has none, and either sends any of the texts, MaxMsgs in all.
InitMsg ==
    /\ \E r \in BoundRows \cup {NoRow} :
          users = [t \in TG |-> IF t = 1 THEN r ELSE NoRow]
    /\ matches = <<>>
    /\ feed = [s \in Steam |-> NULL]
    /\ rfeed = [s \in Steam |-> NULL]
    /\ pc = "off"
    /\ pending = <<>>
    /\ cur = NoCur
    /\ cards = [k \in TG \X MatchIds |-> <<>>]
    /\ alerts = [t \in TG |-> [win |-> 0, lose |-> 0]]
    /\ budget = MaxMsgs
    /\ outcome = [t \in TG |-> "none"]
    /\ basis = [t \in TG |-> [base |-> NULL, seen |-> {}, mid |-> FALSE]]
    /\ OdIdle /\ QueryIdle /\ DailyIdle

NextMsg ==
    \E tg \in TG, m_text \in Texts, pl \in UNION {PlayerResponses(s) : s \in Steam} :
        msg_handle(tg, m_text, pl)

SpecMsg == InitMsg /\ [][NextMsg]_vars

\* ----------------------------------------- guess_role_from_purchase_and_gpm
core_items == {"bkb", "manta", "daedalus", "skadi", "desolator", "battle_fury",
               "butterfly", "radiance", "satanic"}
support_items == {"mekansm", "glimmer_cape", "force_staff", "guardian_greaves",
                  "lotus_orb", "pipe", "urn_of_shadows", "spirit_vessel"}

\* As guess_role_from_purchase_and_gpm, but the marker items are looked at
\* before the pace.
guess_role_items_first(purchase_keys, gpm) ==
    IF purchase_keys \cap core_items # {} THEN "core"
    ELSE IF purchase_keys \cap support_items # {} THEN "support"
    ELSE IF gpm # NULL /\ gpm # 0 /\ gpm >= 420 THEN "core"
    ELSE IF gpm # NULL /\ gpm # 0 /\ gpm < 350 THEN "support"
    ELSE "core"

\* `gpm and ...` is false for None and for 0.
guess_role_from_purchase_and_gpm(purchase_keys, gpm) ==
    LET s == purchase_keys
    IN  IF gpm # NULL /\ gpm # 0 /\ gpm >= 420 THEN "core"
        ELSE IF \E x \in core_items : x \in s THEN "core"
        ELSE IF \E x \in support_items : x \in s THEN "support"
        ELSE IF gpm # NULL /\ gpm # 0 /\ gpm < 350 THEN "support"
        ELSE "core"

\* Keys of a purchase log (two core markers, two support markers, one item
\* that marks nothing) and paces (missing, zero, and around both thresholds).
PurchaseKeys == {"bkb", "radiance", "mekansm", "pipe", "tango"}
Paces == {NULL, 0, 1, 349, 350, 419, 420, 421}

\* role = guess_role_from_purchase_and_gpm(purchases, gpm)
GuessRole(purchase_keys, gpm) ==
    /\ result' = [query |-> "guess_role_from_purchase_and_gpm",
                  purchase_keys |-> purchase_keys, gpm |-> gpm,
                  value |-> guess_role_from_purchase_and_gpm(purchase_keys, gpm)]
    /\ UNCHANGED <<pollvars, odvars, dailyvars>>

\* The role guess on its own, on any purchase log and pace.
InitRole == PollOff(<<>>, 0) /\ QueryIdle /\ OdIdle /\ DailyIdle

NextRole ==
    \E purchase_keys \in SUBSET PurchaseKeys, gpm \in Paces :
        GuessRole(purchase_keys, gpm)

SpecRole == InitRole /\ [][NextRole]_vars

\* ------------------------------------------------------ store: role view
\* The columns of the matches table.
MatchColumns ==
    {"steam32", "match_id", "start_time", "duration", "hero_id", "kills",
     "deaths", "assists", "lobby_type", "game_mode", "radiant_win",
     "player_slot", "net_worth", "gpm", "delta_mmr", "mmr_after"}

\* SELECT role, radiant_win, player_slot FROM matches WHERE steam32=? AND
\* role IS NOT NULL, then games and wins per role; the statement raises
\* sqlite3.OperationalError when the table has no column of that name.
db_role_wr(M, steam32) ==
    IF "role" \notin MatchColumns
    THEN [raised |-> TRUE]
    ELSE LET rs == {i \in 1..Len(M) : M[i].steam32 = steam32 /\ M[i].role # NULL}
             stat(role) ==
                 [g |-> Cardinality({i \in rs : M[i].role = role}),
                  w |-> Cardinality({i \in rs : M[i].role = role /\ RowWin(M[i])})]
         IN  [raised |-> FALSE, core |-> stat("core"), support |-> stat("support")]

\* ------------------------------------------- poll_worker through the cache
\* await asyncio.sleep(10) of the top-level handler
FALLBACK_SLEEP == 10

\* At most MaxEventsCached times a match ends or a call fails (of the
\* upstream, the store or the chat platform's streak alert).
MaxEventsCached == 2

\* The two od_matches calls of a pass for an account.
AnyCall(steam32) == od_matches(steam32, 1, {})
RankedCall(steam32) == od_matches(steam32, 1, {<<"lobby_type", RANKED_LOBBY>>})

CachedKeys ==
    {od_key(c.path, c.params) : c \in {AnyCall(10), RankedCall(10)}}

\* What the upstream may answer to an od_matches call with limit 1.
MatchAnswers ==
    {[kind |-> "ok", body |-> b] : b \in MatchIds \cup {NULL}}
    \cup {[kind |-> k, body |-> NULL] : k \in {"not_found"} \cup OdFailures}

\* What the upstream may do with a request whose answer would be the match
\* id current: give it, or fail in one of the ways of OdResponses.
Answers(current) ==
    {[kind |-> "ok", body |-> current]}
    \cup {[kind |-> k, body |-> NULL] : k \in {"not_found"} \cup OdFailures}

\* The cache branch of od_get: the entry of the key exists and is fresh.
od_hit(cache, now, c) ==
    LET key == od_key(c.path, c.params)
    IN  /\ c.use_cache
        /\ cache[key] # NoEntry
        /\ od_fresh(now, cache[key].ts)

\* od_get as a function of the cache: what the caller gets, whether a
\* request went out, and the cache afterwards.
od_result(cache, now, c, resp) ==
    LET key == od_key(c.path, c.params)
        out == od_except(od_request(resp))
    IN  IF od_hit(cache, now, c)
        THEN [net |-> FALSE, data |-> cache[key].data, cache |-> cache]
        ELSE [net |-> TRUE, data |-> out.data,
              cache |-> IF out.raised THEN cache
                        ELSE [cache EXCEPT ![key] = [ts |-> now, data |-> out.data]]]

\* d seconds pass.  od_get reads only now - ts, so the clock is kept where it
\* is and the entries' timestamps move back instead; an entry CACHE_TTL old
\* or older is kept at that age.
Aged(cache, now, d) ==
    [k \in DOMAIN cache |->
        IF cache[k] = NoEntry THEN NoEntry
        ELSE [cache[k] EXCEPT !.ts = Max2(@ - d, now - CACHE_TTL)]]

\* The last call made with a key: whether a request went out, what the
\* caller got, whether that was the upstream's answer of the moment, and
\* the same of the call before it.
NoCachedCall ==
    [net |-> FALSE, data |-> NULL, behind |-> FALSE,
     prev_net |-> FALSE, prev_behind |-> FALSE]

Called(last, c, res, current) ==
    LET key == od_key(c.path, c.params)
    IN  [last EXCEPT ![key] =
            [net |-> res.net, data |-> res.data, behind |-> res.data # current,
             prev_net |-> last[key].net, prev_behind |-> last[key].behind]]

\* matches = await od_matches(steam32, limit=1, params={}), answered from the
\* cache or by the upstream, then the comparison with the watermark.
FetchAnyCached(resp) ==
    /\ pc = "fetch_any"
    /\ LET u   == Head(pending)
           c   == AnyCall(u.steam32)
           res == od_result(od_cache, od_now, c, resp)
           r   == res.data
           failed == res.net /\ resp.kind # "ok"
       IN  /\ resp \in Answers(feed[u.steam32])
           /\ failed => budget > 0
           /\ budget' = IF failed THEN budget - 1 ELSE budget
           /\ od_cache' = res.cache
           /\ od_last' = Called(od_last, c, res, feed[u.steam32])
           /\ IF r = NULL
              THEN Advance(u.telegram_id, "skipped")
              ELSE IF IsNewMatch(u.last_any_match, r)
              THEN /\ pc' = "fetch_detail"
                   /\ cur' = [NoCur EXCEPT !.m = r]
                   /\ UNCHANGED <<pending, outcome>>
              ELSE /\ pc' = "fetch_ranked"
                   /\ cur' = [NoCur EXCEPT !.m = r]
                   /\ outcome' = [outcome EXCEPT ![u.telegram_id] = "same"]
                   /\ UNCHANGED pending
    /\ UNCHANGED <<users, matches, feed, rfeed, cards, alerts, basis>>
    /\ UNCHANGED <<od_now, result, dailyvars>>

\* ranked_matches = await od_matches(steam32, limit=1,
\* params={"lobby_type":7}), answered from the cache or by the upstream.
FetchRankedCached(resp, raised) ==
    /\ pc = "fetch_ranked"
    /\ raised \in BOOLEAN
    /\ LET u   == Head(pending)
           tg  == u.telegram_id
           c   == RankedCall(u.steam32)
           res == od_result(od_cache, od_now, c, resp)
           rid == res.data
           write == rid # NULL /\ u.last_ranked_match # rid
           failed == res.net /\ resp.kind # "ok"
       IN  /\ resp \in Answers(rfeed[u.steam32])
           /\ (raised \/ failed) => budget > 0
           /\ raised => write
           /\ od_cache' = res.cache
           /\ od_last' = Called(od_last, c, res, rfeed[u.steam32])
           /\ users' = IF write /\ ~raised
                       THEN db_set_last_ranked(users, tg, rid) ELSE users
           /\ budget' = IF raised \/ failed THEN budget - 1 ELSE budget
           /\ Advance(tg, IF raised THEN "raised" ELSE outcome[tg])
    /\ UNCHANGED <<matches, feed, rfeed, cards, alerts, basis>>
    /\ UNCHANGED <<od_now, result, dailyvars>>

\* await asyncio.sleep(POLL_INTERVAL), the cache getting older
SleepPollCached ==
    /\ pc = "sleep_poll"
    /\ pc' = "iter"
    /\ od_cache' = Aged(od_cache, od_now, POLL_INTERVAL)
    /\ UNCHANGED <<users, matches, feed, rfeed, pending, cur, cards, alerts, budget, outcome, basis>>
    /\ UNCHANGED <<od_now, od_last, result, dailyvars>>

\* except Exception: log; await asyncio.sleep(10), the cache getting older
SleepFallbackCached ==
    /\ pc = "crashed"
    /\ pc' = "iter"
    /\ od_cache' = Aged(od_cache, od_now, FALLBACK_SLEEP)
    /\ UNCHANGED <<users, matches, feed, rfeed, pending, cur, cards, alerts, budget, outcome, basis>>
    /\ UNCHANGED <<od_now, od_last, result, dailyvars>>

WorkerCached ==
    \/ Startup
    \/ StartupFails
    \/ ListUsers
    \/ ListUsersFails
    \/ SleepFallbackCached
    \/ SleepPollCached
    \/ \E resp \in MatchAnswers : FetchAnyCached(resp)
    \/ \E d \in DetailOutcomes, done \in 0..3 : ProcessNew(d, done)
    \/ \E delivered \in BOOLEAN, raised \in BOOLEAN : SendCard(delivered, raised)
    \/ \E resp \in MatchAnswers, raised \in BOOLEAN :
          FetchRankedCached(resp, raised)

\* Chat user 1 has just bound account 10; the cache is empty, as at module
\* load; the upstream is as it happens to be.
InitCached ==
    /\ users = db_set_user_steam([t \in TG |-> NoRow], 1, 10)
    /\ matches = <<>>
    /\ feed \in [Steam -> MatchIds \cup {NULL}]
    /\ feed[20] = NULL
    /\ rfeed = [s \in Steam |->
                  IF feed[s] # NULL /\ UpstreamMatch(feed[s]).lobby_type = RANKED_LOBBY
                  THEN feed[s] ELSE NULL]
    /\ pc = "start"
    /\ pending = <<>>
    /\ cur = NoCur
    /\ cards = [k \in TG \X MatchIds |-> <<>>]
    /\ alerts = [t \in TG |-> [win |-> 0, lose |-> 0]]
    /\ budget = MaxEventsCached
    /\ outcome = [t \in TG |-> "none"]
    /\ basis = [t \in TG |-> [base |-> NULL, seen |-> {}, mid |-> FALSE]]
    /\ od_cache = [k \in CachedKeys |-> NoEntry]
    /\ od_now = CACHE_TTL
    /\ od_last = [k \in CachedKeys |-> NoCachedCall]
    /\ QueryIdle /\ DailyIdle

NextCached == WorkerCached \/ \E mid \in MatchIds : Play(10, mid)
SpecCached == InitCached /\ [][NextCached]_vars

\* The event loop keeps scheduling poll_worker: each of its awaits returns.
\* The upstream's failures are among the MaxEventsCached events, so that its
\* calls succeed in the end.
LiveCached == SpecCached /\ WF_vars(WorkerCached)

\* ================================================================ claims
\* A step of poll_worker (every one of its actions moves pc or pending; no
\* other action touches them).
WorkerStep == <<pc, pending>>' # <<pc, pending>>

\* The rating fields and any-mode watermark of a users row.
RatingFields(row) == <<row.exact_mmr, row.current_mmr, row.max_mmr>>

\* Number of delivered "new match" cards for (tg, mid).
Notified(tg, mid) == Len(cards[<<tg, mid>>])

\* C1: no (user, match id) pair is ever notified more than once, whatever the
\* order in which the most-recent event ids are observed.
C1_AtMostOneCardPerMatch ==
    \A tg \in TG, mid \in MatchIds : Notified(tg, mid) <= 1

\* C2: a pass whose fetched most-recent id equals the stored last_any_match
\* goes straight to the ranked bookkeeping, and no step of that pass emits a
\* notification or changes a MatchRecord, a rating field or the any-mode
\* watermark.
C2_EqualPassChangesNothing ==
    [][ /\ ( /\ pc = "fetch_any"
             /\ cur'.m # NULL
             /\ cur'.m = users[CurTg].last_any_match )
           => /\ pc' = "fetch_ranked"
              /\ outcome'[CurTg] = "same"
              /\ UNCHANGED <<users, matches, cards, alerts>>
        /\ ( /\ pc = "fetch_ranked"
             /\ outcome[CurTg] = "same"
             /\ WorkerStep )
           => /\ UNCHANGED <<matches, cards, alerts>>
              /\ RatingFields(users'[CurTg]) = RatingFields(users[CurTg])
              /\ users'[CurTg].last_any_match = users[CurTg].last_any_match
      ]_vars

\* C2 witness: a second pass over an already notified match has reached the
\* ranked bookkeeping.
C2_Witness ==
    /\ pc = "fetch_ranked"
    /\ outcome[CurTg] = "same"
    /\ cur.m = users[CurTg].last_any_match
    /\ Notified(CurTg, cur.m) = 1

\* The stored rows of an account, and the stored row of one of its matches.
RowsOf(M, steam32) == {i \in 1..Len(M) : M[i].steam32 = steam32}
RowAt(M, steam32, mid) ==
    {M[i] : i \in {j \in RowsOf(M, steam32) : M[j].match_id = mid}}

\* What the end-to-end scenario expects of the pass that detects ranked win
\* 555 for a user with unset watermark and effective rating 4000: after the
\* store writes, one row for 555 with delta +30 and mmr_after 4030, the
\* watermark at 555, the rating at 4030 and a streak of +1; and a delivered
\* card is the only one for the match and carries 4030.
C3_PassResult ==
    /\ ( /\ pc = "fetch_detail" /\ pc' = "send_card" )
       => /\ \E row \in RowAt(matches', CurSteam, 555) :
                row.delta_mmr = 30 /\ row.mmr_after = 4030
          /\ Cardinality(RowAt(matches', CurSteam, 555)) = 1
          /\ users'[CurTg].last_any_match = 555
          /\ Effective(users'[CurTg]) = 4030
          /\ calc_streak_for_user(matches', CurSteam) = 1
    /\ ( /\ pc = "send_card" /\ cards' # cards )
       => cards'[<<CurTg, 555>>] = <<4030>>

C3_Scenario ==
    /\ pc \in {"fetch_detail", "send_card"}
    /\ cur.m = 555
    /\ Head(pending).last_any_match = NULL
    /\ pc = "fetch_detail" => Effective(users[CurTg]) = 4000
    /\ pc = "send_card" => cur.mmr_after = 4030

Won(mid) ==
    (UpstreamMatch(mid).player_slot < 128) = UpstreamMatch(mid).radiant_win

\* C4: when the new-match branch stores a ranked match (lobby type 7) for a
\* user with a known rating, the stored delta is +ASSUMED_MMR_DELTA for a win
\* and -ASSUMED_MMR_DELTA for a loss, the base is exact_mmr when set and
\* current_mmr otherwise, and mmr_after = base + delta (the values the card
\* is given too).
C4_RankedDelta ==
    [][ ( /\ pc = "fetch_detail"
          /\ (pc' = "send_card" \/ matches' # matches) )
        => LET m    == UpstreamMatch(cur.m)
               dbu  == users[CurTg]
               base == IF dbu.exact_mmr # NULL THEN dbu.exact_mmr
                       ELSE dbu.current_mmr
               step == IF Won(cur.m) THEN ASSUMED_MMR_DELTA
                       ELSE -ASSUMED_MMR_DELTA
           IN  (m.lobby_type = 7 /\ base # NULL)
               => /\ \A row \in RowAt(matches', CurSteam, cur.m) :
                        row.delta_mmr = step /\ row.mmr_after = base + step
                  /\ RowAt(matches', CurSteam, cur.m) # {}
                  /\ pc' = "send_card"
                       => cur'.delta = step /\ cur'.mmr_after = base + step
      ]_vars

\* C4 witness: a ranked loss was stored for a user with both ratings set; the
\* manual rating 4100 was the base.
C4_Witness ==
    /\ pc = "send_card"
    /\ cur.m = 556
    /\ cur.delta = -30
    /\ cur.mmr_after = 4070
    /\ users[CurTg].current_mmr = 4000
    /\ users[CurTg].exact_mmr = 4070

\* The net number of wins among a set of match ids.
NetWins(S) ==
    LET wins == Cardinality({mid \in S : Won(mid)})
    IN  wins - (Cardinality(S) - wins)

\* C5: a user's effective rating is the base last set by bind or manual
\* override plus ASSUMED_MMR_DELTA x (wins - losses) over the distinct ranked
\* match ids detected since then: no match's delta is applied twice.
C5_DriftCountsEachMatchOnce ==
    \A tg \in TG :
        (users[tg].present /\ basis[tg].base # NULL)
        => Effective(users[tg]) =
             basis[tg].base + ASSUMED_MMR_DELTA * NetWins(basis[tg].seen)

\* C6: the first event observed for a newly linked account always gets its
\* MatchRecord (and its notification), however the account became linked:
\* whenever a pass has fetched an event for the account and moved on to the
\* ranked bookkeeping, a MatchRecord of that account and event is stored.
C6_ObservedEventIsRecorded ==
    pc = "fetch_ranked" => RowAt(matches, CurSteam, cur.m) # {}

\* The rows db_upsert_match can be handed: any account and upstream match,
\* either detail outcome, no rating step or one of the two steps of a rating.
CandidateRows ==
    {MatchRow(s, UpstreamMatch(mid), d.net_worth, d.gold_per_min, st.delta, st.mmr_after) :
        s \in Steam, mid \in MatchIds, d \in DetailOutcomes,
        st \in {[delta |-> NULL, mmr_after |-> NULL],
                [delta |-> ASSUMED_MMR_DELTA, mmr_after |-> 4030],
                [delta |-> -ASSUMED_MMR_DELTA, mmr_after |-> 3970]}}

\* The positions of the stored rows with the key of row.
KeyRows(M, row) == {i \in 1..Len(M) : SameKey(M[i], row)}

\* C7: db_upsert_match is idempotent (applied twice with the same input it
\* leaves the same single row as applied once), and the matches store never
\* holds two records with the same (steam32, match_id).
C7_UpsertIdempotent ==
    /\ \A i, j \in 1..Len(matches) : SameKey(matches[i], matches[j]) => i = j
    /\ \A row \in CandidateRows :
          LET once  == db_upsert_match(matches, row)
              twice == db_upsert_match(once, row)
          IN  /\ twice = once
              /\ Cardinality(KeyRows(once, row)) = 1
              /\ \A i \in KeyRows(once, row) : once[i] = row

\* C7 witness: a match was stored twice for the same account (two cards went
\* out for it) and the store holds one row for it.
C7_Witness ==
    \E tg \in TG, mid \in MatchIds :
        /\ Notified(tg, mid) = 2
        /\ users[tg].steam32 # NULL
        /\ Cardinality({i \in RowsOf(matches, users[tg].steam32) :
                          matches[i].match_id = mid}) = 1

\* A step that is no chat command, no change of the upstream and no fault:
\* each of those uses up one environment event.
QuietStep == budget' = budget

\* What poll_worker keeps for a chat user: the users row, the delivered cards
\* and the streak alerts.
UserState(tg) == <<users[tg], [mid \in MatchIds |-> cards[<<tg, mid>>]], alerts[tg]>>

\* C8: when the any-mode fetch for an account fails or returns nothing, the
\* account is skipped with no state change: the skipping step writes no user
\* field, MatchRecord or watermark and sends nothing, and in the rest of
\* the cycle poll_worker does not work on the account or change anything
\* kept for it.
C8_SkipChangesNothing ==
    [][ /\ ( /\ pc = "fetch_any"
             /\ QuietStep
             /\ cur'.m = NULL )
           => /\ outcome'[CurTg] = "skipped"
              /\ pending' = Tail(pending)
              /\ UNCHANGED <<users, matches, cards, alerts>>
        /\ \A tg \in TG :
             ( outcome[tg] = "skipped" /\ QuietStep )
             => /\ UserState(tg)' = UserState(tg)
                /\ (pending = <<>> \/ CurTg # tg)
      ]_vars

\* C8 witness: an account with a ranked event upstream and no ranked
\* watermark was skipped, and the cycle is over.
C8_Witness ==
    \E tg \in TG :
        /\ outcome[tg] = "skipped"
        /\ pc = "sleep_poll"
        /\ users[tg].steam32 # NULL
        /\ rfeed[users[tg].steam32] # NULL
        /\ users[tg].last_ranked_match = NULL

\* C9: an exception raised while one account is processed ends the work on
\* that account only: poll_worker goes on with the next account of the same
\* cycle (or to the sleep after the last one), no account is dropped from the
\* cycle unprocessed, and the loop stays alive.
C9_RaiseKeepsCycle ==
    [][ /\ \A tg \in TG :
             ( outcome[tg] # "raised" /\ outcome'[tg] = "raised" )
             => /\ pending # <<>>
                /\ CurTg = tg
                /\ pending' = Tail(pending)
                /\ pc' = IF Tail(pending) = <<>> THEN "sleep_poll" ELSE "fetch_any"
        /\ pc # "iter"
           => \/ pending' = pending
              \/ (pending # <<>> /\ pending' = Tail(pending))
      ]_vars

\* C9 witness: in one cycle the first account raised and the second one was
\* processed after it.
C9_Witness ==
    /\ outcome[1] = "raised"
    /\ outcome[2] \in {"new", "same"}
    /\ pc = "sleep_poll"

\* C10: poll_worker cannot be terminated by a failure: whatever fails, a new
\* reconciliation cycle is always eventually started.
C10_AlwaysAnotherCycle == []<>(pc = "iter")

\* A step that is a call of od_get.
OdCallStep == od_last'.n # od_last.n

\* C11: od_get never raises to its caller, and a network error, a timeout, a
\* non-2xx status or a malformed body gives the caller the same "no data"
\* value (None) as a 404, whatever the path and parameters.
C11_NeverRaises ==
    /\ ~od_last.raised
    /\ (od_last.net /\ od_last.kind \in OdFailures \cup {"not_found"})
       => od_last.data = NULL

\* C11 witness: a request answered with a body that is no JSON returned None.
C11_Witness ==
    /\ od_last.net
    /\ od_last.kind = "malformed"
    /\ od_last.data = NULL
    /\ ~od_last.raised

\* C12: with caching enabled od_get consults the cache before the network: it
\* returns the cached entry, without a request, exactly when an entry was
\* stored under the identical path+params key less than CACHE_TTL seconds
\* earlier; a call that opts out of the cache (od_match_detail) always makes
\* a network request.
C12_CacheBeforeNetwork ==
    [][ OdCallStep
        => LET key   == od_last'.key
               entry == od_cache[key]
               young == entry # NoEntry /\ od_now - entry.ts < 90
           IN  /\ (od_last'.use_cache /\ young)
                  => /\ ~od_last'.net
                     /\ od_last'.data = entry.data
                     /\ UNCHANGED od_cache
               /\ (~od_last'.use_cache \/ ~young) => od_last'.net
      ]_vars

\* C12 witness: a call was answered from an entry 60 seconds old while
\* another key holds a different document and the detail key holds an entry.
C12_Witness ==
    /\ od_last.n > 0
    /\ ~od_last.net
    /\ od_now - od_cache[od_last.key].ts = 60
    /\ \E k \in OdKeys \ {od_last.key} :
          od_cache[k] # NoEntry /\ od_cache[k].data # od_last.data
    /\ od_cache[od_key(<<"matches", 555>>, {})] # NoEntry

\* C13: a failed upstream call is not cached: the same call made on the next
\* reconciliation pass, POLL_INTERVAL seconds later, is a real network
\* request.
C13_FailedCallRetriedNextPass ==
    [][ ( /\ OdCallStep
          /\ od_last.net
          /\ od_last.kind \in OdFailures
          /\ od_last'.key = od_last.key
          /\ od_last'.use_cache
          /\ od_last'.at = od_last.at + POLL_INTERVAL )
        => od_last'.net
      ]_vars

\* C14: the ranked bookkeeping of a pass, when the most recent ranked event
\* differs from the user's stored last_ranked_match, sets last_ranked_match to
\* that id and changes nothing else: no notification goes out and no rating,
\* any-mode watermark or MatchRecord is written by that step.
C14_RankedWatermarkOnly ==
    [][ ( /\ pc = "fetch_ranked"
          /\ pc' # pc
          /\ QuietStep )
        => LET rid == rfeed[CurSteam]
               old == users[CurTg].last_ranked_match
           IN  /\ UNCHANGED <<matches, cards, alerts>>
               /\ \/ users' = users
                  \/ /\ rid # NULL
                     /\ rid # old
                     /\ users' = [users EXCEPT ![CurTg].last_ranked_match = rid]
               /\ (rid = NULL \/ rid = old) => users' = users
      ]_vars

\* C14 witness: a cycle is over in which the ranked watermark was set to 555
\* while the any-mode watermark of the same user stands at the unranked 557.
C14_Witness ==
    /\ pc = "sleep_poll"
    /\ \E tg \in TG :
          /\ outcome[tg] \in {"new", "same"}
          /\ users[tg].last_ranked_match = 555
          /\ users[tg].last_any_match = 557

\* C15: partial data never blocks the notification: whatever the match detail
\* gave (also nothing), a pass that detected a new match and met no fault
\* upserts the MatchRecord (net worth and pace null when the detail gave
\* none), advances the watermark and goes on to emit the card.
C15_PartialDataNotBlocking ==
    [][ ( /\ pc = "fetch_detail"
          /\ pc' # pc
          /\ QuietStep )
        => /\ pc' = "send_card"
           /\ pending' = pending
           /\ Cardinality(RowAt(matches', CurSteam, cur.m)) = 1
           /\ \A row \in RowAt(matches', CurSteam, cur.m) :
                 \/ row.net_worth = NULL /\ row.gpm = NULL
                 \/ ( row.net_worth = DetailPlayer.net_worth
                      /\ row.gpm = DetailPlayer.gold_per_min )
           /\ users'[CurTg].last_any_match = cur.m
      ]_vars

\* C15 witness: the card of a match went out whose MatchRecord has neither
\* net worth nor pace, and the watermark stands at the match.
C15_Witness ==
    /\ pc = "fetch_ranked"
    /\ outcome[CurTg] = "new"
    /\ Notified(CurTg, cur.m) = 1
    /\ users[CurTg].last_any_match = cur.m
    /\ \E row \in RowAt(matches, CurSteam, cur.m) :
          row.net_worth = NULL /\ row.gpm = NULL

\* The position of stored row i among the account's rows, most recent first.
Recency(M, i) ==
    1 + Cardinality({j \in RowsOf(M, M[i].steam32) : M[j].start_time > M[i].start_time})

\* Whether the account's k-th most recent stored match is a win.
WinAt(M, steam32, k) ==
    \E i \in RowsOf(M, steam32) :
        /\ Recency(M, i) = k
        /\ (M[i].player_slot < 128) = (M[i].radiant_win = 1)

\* The length of the leading run of same-outcome matches among the account's
\* n most recent stored matches.
LeadingRun(M, steam32, n) ==
    LET len == IF Cardinality(RowsOf(M, steam32)) < n
               THEN Cardinality(RowsOf(M, steam32)) ELSE n
        runs == {k \in 0..len :
                   \A h \in 1..k : WinAt(M, steam32, h) = WinAt(M, steam32, 1)}
    IN  CHOOSE k \in runs : \A h \in runs : h <= k

\* The streak expected of the account's n most recent stored matches.
SignedRun(M, steam32, n) ==
    IF RowsOf(M, steam32) = {} THEN 0
    ELSE IF WinAt(M, steam32, 1) THEN LeadingRun(M, steam32, n)
    ELSE -LeadingRun(M, steam32, n)

\* The outcomes of the account's stored matches, most recent first.
Outcomes(M, steam32) ==
    [k \in 1..Cardinality(RowsOf(M, steam32)) |-> WinAt(M, steam32, k)]

StreakExamples ==
    result.query = "calc_streak_for_user"
    => /\ Outcomes(matches, 10) = <<TRUE, TRUE, TRUE, FALSE, TRUE>> => result.value = 3
       /\ Outcomes(matches, 10) = <<FALSE, FALSE, TRUE>> => result.value = -2
       /\ Outcomes(matches, 10) = <<>> => result.value = 0

\* C16 as stated: calc_streak_for_user returns the length of the leading run
\* of same-outcome matches of all the account's stored matches, most recent
\* first, positive for wins and negative for losses; [W,W,W,L,W] gives +3,
\* [L,L,W] gives -2, no history gives 0.
C16_StreakOfAllStored ==
    /\ StreakExamples
    /\ result.query = "calc_streak_for_user"
       => result.value = SignedRun(matches, 10, Len(matches))

\* C16 amended: the same, over the account's STREAK_ROWS most recent stored
\* matches.
C16_StreakOfRecentStored ==
    /\ StreakExamples
    /\ result.query = "calc_streak_for_user"
       => result.value = SignedRun(matches, 10, 50)

\* C16 witness: the streak of [W,W,W,L,W] was computed as +3.
C16_Witness ==
    /\ result.query = "calc_streak_for_user"
    /\ Outcomes(matches, 10) = <<TRUE, TRUE, TRUE, FALSE, TRUE>>
    /\ result.value = 3

\* C18: for every slot and outcome is_player_win(slot, radiant_win) is the
\* negation of is_player_win(slot, ~radiant_win), and for a fixed outcome the
\* result flips exactly across the side boundary (slot < 128 against
\* slot >= 128); the copy of the rule in calc_streak_for_user and the store
\* aggregates agrees with is_player_win on every stored record, and with the
\* classification made of the match when it was stored.
C18_WinClassification ==
    /\ \A slot \in 0..255, rw \in BOOLEAN :
          /\ is_player_win(slot, rw) = ~is_player_win(slot, ~rw)
          /\ is_player_win(slot, rw) = (IF slot < 128 THEN rw ELSE ~rw)
    /\ \A i \in 1..Len(matches) :
          RowWin(matches[i])
            = is_player_win(matches[i].player_slot, matches[i].radiant_win = 1)
    /\ result.query = "is_player_win"
       => \A row \in RowAt(matches, 10, result.match_id) :
             RowWin(row) = result.value

\* C18 witness: a match was classified and stored, and the table holds a win
\* and a loss on each side of the boundary.
C18_Witness ==
    /\ result.query = "is_player_win"
    /\ \A slot \in {127, 128}, rw \in {0, 1} :
          \E i \in 1..Len(matches) :
              matches[i].player_slot = slot /\ matches[i].radiant_win = rw

\* C17: streak alerts go out only in a pass that detected a new match, never
\* in a pass with an unchanged watermark; in such a pass (no fault) a win
\* streak alert goes out iff the recomputed streak >= STREAK_NOTIFY_WIN and
\* a lose streak alert iff it <= -STREAK_NOTIFY_LOSE, on every new match that
\* satisfies the threshold.
C17_StreakAlerts ==
    [][ /\ alerts' # alerts
           => /\ pc = "send_card"
              /\ outcome[CurTg] = "new"
              /\ \A tg \in TG \ {CurTg} : alerts'[tg] = alerts[tg]
        /\ ( /\ pc = "send_card"
             /\ pc' # pc
             /\ QuietStep )
           => LET streak == SignedRun(matches, CurSteam, 50)
              IN  /\ alerts'[CurTg].win
                       = alerts[CurTg].win + (IF streak >= 5 THEN 1 ELSE 0)
                  /\ alerts'[CurTg].lose
                       = alerts[CurTg].lose + (IF streak <= -5 THEN 1 ELSE 0)
      ]_vars

\* C17 witness: two win streak alerts went out, at streak 5 and again at 6,
\* and the pass over the unchanged watermark that follows has sent none.
C17_Witness ==
    /\ alerts[1].win = 2
    /\ calc_streak_for_user(matches, 10) = 6
    /\ pc = "fetch_ranked"
    /\ outcome[1] = "same"

\* The local day on which a daily summary was sent, and the local days whose
\* summaries counted a match.
ReportDay(r) == LocalDay(r.at)
CountedOn(t) == {ReportDay(r) : r \in {x \in reports : t \in x.today}}

\* The summaries of local day d whose fetch of the matches succeeded.
ReportsOf(d) == {r \in reports : r.fetched /\ ReportDay(r) = d}

\* C19: a match that starts exactly at local midnight is counted in that
\* day's report; a match that starts one second before local midnight is not,
\* and is counted in the previous day's report instead; so every match is
\* counted in the reports of exactly one day.
C19_EachMatchInOneDailyReport ==
    \A d \in 1..(MaxDays - 1) :
        (ReportsOf(d) # {} /\ ReportsOf(d - 1) # {})
        => /\ Midnight(d) \in played
              => /\ \A r \in ReportsOf(d) : Midnight(d) \in r.today
                 /\ CountedOn(Midnight(d)) = {d}
           /\ (Midnight(d) - 1) \in played
              => /\ \A r \in ReportsOf(d) : (Midnight(d) - 1) \notin r.today
                 /\ \A r \in ReportsOf(d - 1) : (Midnight(d) - 1) \in r.today
                 /\ CountedOn(Midnight(d) - 1) = {d - 1}

\* C20: each linked account receives at most one daily summary per local day,
\* and none is sent before DAILY_REPORT_HOUR:DAILY_REPORT_MINUTE of its day.
C20_OncePerDayNotEarly ==
    /\ \A r \in reports : now_msk(r.at) >= DueAt(ReportDay(r))
    /\ \A r1, r2 \in reports :
          (r1.tg = r2.tg /\ ReportDay(r1) = ReportDay(r2)) => r1.at = r2.at

\* The next occurrence of the configured local time after local instant now:
\* today's when it is still ahead, tomorrow's when it is now or past.
NextDue(now) ==
    LET d == now \div Ticks(DAY_SECONDS)
    IN  IF now < DueAt(d) THEN DueAt(d) ELSE DueAt(d + 1)

\* C21: at every instant daily_worker computes its wait, seconds_until_daily
\* is the wait to the next occurrence of the configured local time: greater
\* than 0, at most 86400 seconds, and a sleep of that length does not end
\* before the target instant.
C21_WaitReachesNextOccurrence ==
    dpc = "loop" =>
        LET now  == now_msk(clock)
            wait == seconds_until_daily(clock)
        IN  /\ wait > 0
            /\ wait <= DAY_SECONDS
            /\ now + Ticks(wait) >= NextDue(now)
            /\ now + Ticks(wait) < NextDue(now) + Ticks(1)

\* The instants at which daily_worker went through its list of accounts.
DailyRuns == {r.at : r \in reports} \cup {f.at : f \in failures}
Linked == {t \in TG : users[t].present /\ users[t].steam32 # NULL}

\* C22: at each daily run every linked account is sent a summary, whatever
\* its number of matches: an account with no match in the day's window gets
\* the summary with the "did not play today" line, and an account whose own
\* report raised does not keep the other accounts from getting theirs.
C22_EveryLinkedAccountGetsSummary ==
    /\ \A at \in DailyRuns : \A tg \in Linked :
          \/ \E r \in reports : r.tg = tg /\ r.at = at
          \/ \E f \in failures : f.tg = tg /\ f.at = at
    /\ \A r \in reports : r.today = {} => (r.games = 0 /\ r.not_played_line)

\* A run in which the report of the first account raised and the second
\* account, with no match today, still got its summary; and a summary of an
\* account with a match today.
C22_Witness ==
    /\ \E f \in failures : f.tg = 1 /\
          \E r \in reports : r.tg = 2 /\ r.at = f.at /\ r.games = 0 /\ r.not_played_line
    /\ \E r \in reports : r.games > 0 /\ ~r.not_played_line

\* A step of msg_handle, which result' then describes.
MsgStep == budget' = budget - 1 /\ result'.query = "msg_handle"

\* The rows of the chat users other than tg are as they were.
OthersKept(tg) == \A t \in TG \ {tg} : users'[t] = users[t]

\* Not found tells the user so and changes nothing; a row is created or its
\* account replaced only by a handler whose lookup returned a profile.
VerifiedBeforeBind ==
    MsgStep =>
        LET tg == result'.tg
        IN  /\ result'.pl \in {"none", "no_profile"}
               => (result'.reply = "not_found" /\ users' = users)
            /\ (users'[tg].present # users[tg].present
                \/ users'[tg].steam32 # users[tg].steam32)
               => (result'.reply = "bound" /\ result'.pl = "profile")
            /\ result'.reply = "bound"
               => (users'[tg].present /\ users'[tg].steam32 = result'.value)

\* C23 as stated: a profile lookup that yields not found or no profile gets
\* the "not found" reply and leaves the store unchanged; a row is created or
\* rebound only after a successful verification; and a rebind changes
\* nothing but steam32 of the chat user's one row.
C23_RebindReplacesOnlyAccount ==
    [][/\ VerifiedBeforeBind
       /\ (MsgStep /\ result'.reply = "bound" /\ users[result'.tg].present)
          => users' = [users EXCEPT ![result'.tg].steam32 = result'.value]]_vars

\* C23: as above, but a rebind to a profile whose rank tier has a non-zero
\* estimate also stores the estimate as current_mmr (raising max_mmr to it)
\* and the tier as last_rank_tier; exact_mmr and the watermarks of the row,
\* and the rows of other chat users, stay as they were.
C23_RebindKeepsManualAndWatermarks ==
    [][/\ VerifiedBeforeBind
       /\ (MsgStep /\ result'.reply = "bound" /\ users[result'.tg].present)
          => LET tg  == result'.tg
                 old == users[tg]
                 new == users'[tg]
                 est == approx_mmr_from_rank_tier(result'.rank_tier)
             IN  /\ OthersKept(tg)
                 /\ new.exact_mmr = old.exact_mmr
                 /\ new.last_any_match = old.last_any_match
                 /\ new.last_ranked_match = old.last_ranked_match
                 /\ IF est # NULL /\ est # 0
                    THEN /\ new.current_mmr = est
                         /\ new.max_mmr = Max2(Coalesce(old.max_mmr, 0), est)
                         /\ new.last_rank_tier = result'.rank_tier
                    ELSE /\ new.current_mmr = old.current_mmr
                         /\ new.max_mmr = old.max_mmr
                         /\ new.last_rank_tier = old.last_rank_tier]_vars

\* Chat user 1, bound to account 10 with a manual rating and watermarks, has
\* just rebound to account 20, whose profile is Ancient 4.
C23_Witness ==
    /\ result.query = "msg_handle" /\ result.reply = "bound" /\ result.tg = 1
    /\ result.rank_tier = 64
    /\ users[1].steam32 = 20 /\ users[1].last_any_match = 555
    /\ users[1].exact_mmr = 3500 /\ users[1].current_mmr = 4000

\* A text that is a rating override ("mmr ...") which is unparseable or out
\* of range, or a text that is an id (all digits, or a steamcommunity.com
\* address) in no recognized format.
Malformed(t) ==
    \/ /\ StartsWith(Lower(Parsed[t].txt), 1, <<"m", "m", "r">>)
       /\ \/ Parsed[t].group = <<>>
          \/ int(Parsed[t].group) <= 0
          \/ int(Parsed[t].group) > 30000
    \/ /\ isdigit(Parsed[t].txt)
          \/ Contains(Parsed[t].txt, SubSeq(HostPath, 1, Len(HostPath) - 1))
       /\ Parsed[t].steam32 = NULL

RejectedUnchanged ==
    (MsgStep /\ Malformed(result'.text))
    => (result'.reply \in {"bad_mmr", "bad_steam"} /\ users' = users)

AcceptedStored ==
    (MsgStep /\ result'.reply = "mmr_saved")
    => users'[result'.tg].exact_mmr = result'.value

\* C24: malformed or out-of-range input is rejected with a corrective reply
\* and changes no stored state; after an accepted "mmr N" the user's stored
\* exact_mmr is N.
C24_RejectedOrStored == [][RejectedUnchanged /\ AcceptedStored]_vars

\* The first rule of an ordered list of <<condition, role>> that applies.
FirstRule(rules) ==
    LET RECURSIVE F(_)
        F(r) == IF r[1][1] THEN r[1][2] ELSE F(Tail(r))
    IN  F(rules)

RoleGuessed == result.query = "guess_role_from_purchase_and_gpm"

\* C25 as stated, "above the upper threshold" being the source's gpm >= 420
\* and "below the lower threshold" gpm < 350: the role is that of the first
\* rule that applies, a pace of zero being a pace below the lower threshold
\* and a missing pace being neither above nor below.
C25_OrderedRule ==
    RoleGuessed =>
        LET keys == result.purchase_keys
            gpm  == result.gpm
        IN  result.value =
              FirstRule(<< <<gpm # NULL /\ gpm >= 420, "core">>,
                           <<keys \cap core_items # {}, "core">>,
                           <<keys \cap support_items # {}, "support">>,
                           <<gpm # NULL /\ gpm < 350, "support">>,
                           <<TRUE, "core">> >>)

\* C25: the same ordered rule, but a pace of zero counts as missing: it is
\* not below the lower threshold, and with no marker item gives "core".
C25_OrderedRuleZeroIsMissing ==
    RoleGuessed =>
        LET keys == result.purchase_keys
            gpm  == IF result.gpm = 0 THEN NULL ELSE result.gpm
        IN  result.value =
              FirstRule(<< <<gpm # NULL /\ gpm >= 420, "core">>,
                           <<keys \cap core_items # {}, "core">>,
                           <<keys \cap support_items # {}, "support">>,
                           <<gpm # NULL /\ gpm < 350, "support">>,
                           <<TRUE, "core">> >>)

\* A pace of zero with no marker item among the purchases: "core".
C25_Witness ==
    /\ RoleGuessed
    /\ result.gpm = 0 /\ result.purchase_keys = {"tango"}
    /\ result.value = "core"

\* C26: every match row poll_worker has upserted carries the inferred role
\* tag with its other derived fields, and the role win-rate view of the
\* account counts each of its stored rows under a role.
C26_StoredRowCarriesRole ==
    \A i \in 1..Len(matches) :
        /\ "role" \in DOMAIN matches[i]
        /\ matches[i].role \in {"core", "support"}
        /\ LET v == db_role_wr(matches, matches[i].steam32)
           IN  /\ ~v.raised
               /\ v.core.g + v.support.g =
                    Cardinality({j \in 1..Len(matches) :
                                   matches[j].steam32 = matches[i].steam32})

\* The base rating of each known major rank.
MajorBase == <<0, 600, 1200, 1800, 2600, 3400, 4400, 5400>>
KnownMajor(rank_tier) == rank_tier # NULL /\ (rank_tier \div 10) \in 1..Len(MajorBase)

\* C27: a successful bind to a profile whose rank tier has a known major rank
\* stores base(major) + (minor - 1) * 200, which is not negative, as the auto
\* rating; for a tier of unknown major, or none, it stores no estimate; the
\* manual rating is left as it was, and no other reply of msg_handle goes
\* with a change of the auto rating.
C27_EstimateStoredAtBind ==
    [][MsgStep =>
        LET tg  == result'.tg
            rt  == result'.rank_tier
            est == MajorBase[rt \div 10] + ((rt % 10) - 1) * 200
        IN  /\ result'.reply = "bound"
               => /\ users'[tg].exact_mmr = users[tg].exact_mmr
                  /\ IF KnownMajor(rt)
                     THEN est >= 0 /\ users'[tg].current_mmr = est
                     ELSE users'[tg].current_mmr = users[tg].current_mmr
            /\ result'.reply # "bound"
               => users'[tg].current_mmr = users[tg].current_mmr]_vars

\* The step of poll_worker's new-match branch that holds the store writes.
ProcessStep == pc = "fetch_detail" /\ WorkerStep

\* C28: in the new-match branch, a non-ranked match, or a ranked match for a
\* user with no rating at all, changes neither exact_mmr nor current_mmr and
\* its row is stored with delta_mmr and mmr_after null; a ranked match with
\* exact_mmr set moves exact_mmr by the step and leaves current_mmr as it
\* was; a ranked match with only current_mmr set moves current_mmr by the
\* step and leaves exact_mmr unset.  (A store write that raises ends the
\* branch: the writes before it are made, the later ones are not.)
C28_RatingWriteFrame ==
    [][ProcessStep =>
        LET tg     == CurTg
            m      == UpstreamMatch(cur.m)
            old    == users[tg]
            new    == users'[tg]
            step   == IF Won(cur.m) THEN ASSUMED_MMR_DELTA ELSE -ASSUMED_MMR_DELTA
            ranked == m.lobby_type = 7
            wrote  == pc' = "send_card" \/ matches' # matches
        IN  /\ (~ranked \/ (old.exact_mmr = NULL /\ old.current_mmr = NULL))
               => /\ new.exact_mmr = old.exact_mmr
                  /\ new.current_mmr = old.current_mmr
                  /\ wrote => \A row \in RowAt(matches', CurSteam, cur.m) :
                                 row.delta_mmr = NULL /\ row.mmr_after = NULL
            /\ (ranked /\ old.exact_mmr # NULL)
               => /\ new.current_mmr = old.current_mmr
                  /\ new.exact_mmr \in {old.exact_mmr, old.exact_mmr + step}
                  /\ wrote => new.exact_mmr = old.exact_mmr + step
            /\ (ranked /\ old.exact_mmr = NULL /\ old.current_mmr # NULL)
               => /\ new.exact_mmr = NULL
                  /\ new.current_mmr \in {old.current_mmr, old.current_mmr + step}
                  /\ wrote => new.current_mmr = old.current_mmr + step]_vars

\* A ranked win was stored for a user with only the auto rating, 4000: the
\* auto rating moved by the step and the manual rating is still unset.
C28_Witness ==
    /\ pc = "send_card"
    /\ cur.m = 555
    /\ users[CurTg].exact_mmr = NULL
    /\ users[CurTg].current_mmr = 4000 + ASSUMED_MMR_DELTA

\* C29: whenever a step of poll_worker changes the row of the user it is
\* working on (a watermark or a rating), the account whose upstream answer
\* it is processing is the account bound to that user when the step writes.
C29_WritesForBoundAccount ==
    [][(WorkerStep /\ pending # <<>> /\ users'[CurTg] # users[CurTg])
       => CurSteam = users[CurTg].steam32]_vars

\* C30: a manual rating is never lost to poll_worker, wherever in its cycle
\* the loop was suspended when "mmr N" set it: a step of the loop leaves a
\* set exact_mmr as it is, or, in the new-match branch of that user, moves it
\* by one step from the value stored at that moment; so the first write
\* after an override gives N +/- step, whatever the loop had read before.
C30_OverrideNotLost ==
    [][WorkerStep =>
        \A tg \in TG :
            LET e == users[tg].exact_mmr
                n == users'[tg].exact_mmr
            IN  e # NULL
                => \/ n = e
                   \/ /\ ProcessStep /\ tg = CurTg
                      /\ n = e + (IF Won(cur.m) THEN ASSUMED_MMR_DELTA
                                  ELSE -ASSUMED_MMR_DELTA)]_vars

\* "mmr 4100" arrived while the loop was suspended at the detail fetch of the
\* user's ranked win 555, and the loop has since written 4100 + step.
C30_Witness ==
    /\ pc = "send_card"
    /\ cur.m = 555
    /\ basis[CurTg].mid
    /\ basis[CurTg].base = 4100
    /\ basis[CurTg].seen = {555}
    /\ users[CurTg].exact_mmr = 4100 + ASSUMED_MMR_DELTA

\* C31: in every reachable state, every user who has a rating has
\* max_mmr >= the effective rating (exact_mmr when set, else current_mmr).
C31_HighWaterMark ==
    \A tg \in TG :
        (users[tg].present /\ Effective(users[tg]) # NULL)
        => /\ users[tg].max_mmr # NULL
           /\ users[tg].max_mmr >= Effective(users[tg])

\* C32: a "new match" card for match m goes out only when the MatchRecord of
\* m is stored and last_any_match of the user is m; the watermark is moved
\* only by the new-match branch, to the match it detected; and a pass that
\* fetches the match the watermark names does not enter the new-match
\* branch.  So whatever fails between the steps, a notified match is not
\* detected again on the next pass.
C32_CardAfterRecordAndWatermark ==
    [][/\ \A tg \in TG, mid \in MatchIds :
            cards'[<<tg, mid>>] # cards[<<tg, mid>>]
            => /\ pc = "send_card" /\ tg = CurTg /\ mid = cur.m
               /\ RowAt(matches, CurSteam, mid) # {}
               /\ users[tg].last_any_match = mid
               /\ users'[tg].last_any_match = mid
       /\ \A tg \in TG :
            users'[tg].last_any_match # users[tg].last_any_match
            => /\ ProcessStep /\ tg = CurTg
               /\ users'[tg].last_any_match = cur.m
               /\ RowAt(matches', CurSteam, cur.m) # {}
       /\ (pc = "fetch_any" /\ pc' = "fetch_detail")
            => cur'.m # users[CurTg].last_any_match]_vars

\* The card of ranked win 555 has gone out, after its row was stored and the
\* watermark set; and the send of the card of another match failed, which
\* is stored and marked all the same.
C32_Witness ==
    /\ pc = "fetch_ranked"
    /\ cur.m = 556
    /\ Notified(CurTg, 556) = 0
    /\ Notified(CurTg, 555) = 1
    /\ users[CurTg].last_any_match = 556
    /\ RowAt(matches, CurSteam, 556) # {}
    /\ RowAt(matches, CurSteam, 555) # {}

\* C33: every match that becomes the most recent event of a linked account,
\* being newer than the last one detected, is eventually stored, unless
\* poll_worker has ended or the upstream falls back to an older event; the
\* notification, which a failed send may lose, is left aside.
C33_NoMatchSkipped ==
    \A mid \in MatchIds :
        (\E tg \in TG : /\ users[tg].present /\ users[tg].steam32 = 10
                        /\ users[tg].last_any_match # NULL
                        /\ users[tg].last_any_match < mid
                        /\ feed[10] = mid)
        ~> (RowAt(matches, 10, mid) # {} \/ pc = "dead" \/ feed[10] < mid)

Recorded(mid) == RowAt(matches, 10, mid) # {}

\* The one send of the card of the match the watermark names has failed.
CardLost(tg, mid) ==
    /\ users[tg].last_any_match = mid
    /\ Notified(tg, mid) = 0
    /\ ~(pc = "send_card" /\ cur.m = mid)

\* Match mid is the most recent event of the account chat user 1 has bound,
\* and poll_worker is in its loop.
Stays(mid) ==
    /\ users[1].present /\ users[1].steam32 = 10
    /\ feed[10] = mid
    /\ pc # "dead"

====
